---- MODULE Spec2Model ----
(***************************************************************************)
(* A model of the importance scorer (src/src/memory-scorer.ts), of the     *)
(* memory_store tool and of the Neo4j storage adapter it drives.           *)
(*                                                                         *)
(* Spec        the scorer: its configuration, updateConfig and             *)
(*             scoreConversation, await by await.                          *)
(* SpecConfig  the configuration alone, over a dense range of thresholds.  *)
(* SpecConstruct  the same, from before the constructor is called.         *)
(* SpecSweep   one processReinforcements sweep over a store whose          *)
(*             getRelated and update calls may fail.                       *)
(* SpecStore   the Neo4j store under store, forget, cleanup and two        *)
(*             concurrent sweeps.                                          *)
(* SpecTool    the store written only by the memory_store tool, with       *)
(*             sweeps and cleanup runs.                                    *)
(* SpecCleanup  cleanupExpiredMemories over the store, with queries that   *)
(*             may fail.                                                   *)
(* SpecUpdate  adapter.update called twice, on the Neo4j and on the        *)
(*             Graphiti adapter, whose update is two calls.                *)
(* SpecResweep  two sweeps in a row over stores of up to 52 records.       *)
(* SpecConcurrent  updateConfig between the awaits of scoring calls.       *)
(* SpecHeartbeat  the heartbeat hook over the hours.                       *)
(* SpecGraphitiSweep  cleanup() and one sweep over the Graphiti adapter.    *)
(* SpecTimeout  scoreConversation with a scoring model whose endpoint may  *)
(*             never answer, with fairness for the timer and the event     *)
(*             loop.                                                       *)
(* SpecFactors  the heuristic path over the ends of its factors.           *)
(***************************************************************************)
EXTENDS Integers, Sequences, FiniteSets, TLC

VARIABLES
    config,     \* MemoryScorer.config
    result,     \* the ScoringResult of the last scoreConversation call
    call,       \* what the last operation was, with its inputs
    now,        \* Date.now(), in milliseconds
    nodes,      \* the Memory nodes of the database (the server's episodes)
    made,       \* how many nodes have been created so far
    cleanup,    \* where the adapter's running cleanup() call is
    sweeps      \* where each processReinforcements() call is

scorerVars == <<config, result, call>>
storeVars == <<now, nodes, made, cleanup, sweeps>>

---------------------------------------------------------------------------
(* Values that stand for JavaScript's undefined and for "no call yet".     *)
Undefined == "undefined"

\* An optional value: None is JavaScript's undefined, Some(v) the value v.
None == {}
Some(v) == {v}

NoResult == [score |-> 0 - 1, tier |-> "none", reasoning |-> <<>>,
             expiresInHours |-> None, recommendedAction |-> "none"]

\* what the caller sees when scoreConversation rejects instead of resolving
Thrown == [NoResult EXCEPT !.recommendedAction = "thrown"]

Tiers == {"explicit", "silent", "ephemeral"}
Actions == {"store_explicit", "store_silent", "store_ephemeral", "skip"}

---------------------------------------------------------------------------
(* Strings.  A TLA+ string is used as the JavaScript string with the same  *)
(* characters (ASCII only, so that length is the number of characters).    *)

Min(a, b) == IF a < b THEN a ELSE b
Max(a, b) == IF a > b THEN a ELSE b

\* String.prototype.includes
Includes(s, sub) ==
    \E i \in 0..(Len(s) - Len(sub)) : SubSeq(s, i + 1, i + Len(sub)) = sub

\* String.prototype.startsWith
StartsWith(s, p) == Len(p) <= Len(s) /\ SubSeq(s, 1, Len(p)) = p

UpperChars == "ABCDEFGHIJKLMNOPQRSTUVWXYZ"
LowerChars == "abcdefghijklmnopqrstuvwxyz"

LowerChar(c) ==
    IF \E i \in 1..Len(UpperChars) : SubSeq(UpperChars, i, i) = c
    THEN LET i == CHOOSE j \in 1..Len(UpperChars) : SubSeq(UpperChars, j, j) = c
         IN  SubSeq(LowerChars, i, i)
    ELSE c

\* String.prototype.toLowerCase
RECURSIVE ToLowerCase(_)
ToLowerCase(s) ==
    IF Len(s) = 0 THEN s
    ELSE IF Len(s) = 1 THEN LowerChar(s)
    ELSE LET half == Len(s) \div 2
         IN  ToLowerCase(SubSeq(s, 1, half))
             \o ToLowerCase(SubSeq(s, half + 1, Len(s)))

\* Array.prototype.join over the contents of the segments
RECURSIVE JoinContents(_, _)
JoinContents(segments, sep) ==
    IF Len(segments) = 0 THEN ""
    ELSE IF Len(segments) = 1 THEN segments[1].content
    ELSE segments[1].content \o sep \o JoinContents(Tail(segments), sep)

\* the number of words of `words` that `content` includes
RECURSIVE Hits(_, _)
Hits(content, words) ==
    IF Len(words) = 0 THEN 0
    ELSE (IF Includes(content, Head(words)) THEN 1 ELSE 0)
         + Hits(content, Tail(words))

\* Array.prototype.some(marker => content.includes(marker))
SomeIncluded(content, words) ==
    \E i \in 1..Len(words) : Includes(content, words[i])

---------------------------------------------------------------------------
(* Configuration.                                                          *)

\* DEFAULT_SCORING_CONFIG.cleanupIntervalHours
DEFAULT_CLEANUP_INTERVAL_HOURS == 12

DEFAULT_SCORING_CONFIG ==
    [enabled |-> TRUE,
     explicitThreshold |-> 8,
     ephemeralThreshold |-> 4,
     defaultEphemeralHours |-> 72,
     defaultSilentDays |-> 30,
     cleanupIntervalHours |-> DEFAULT_CLEANUP_INTERVAL_HOURS,
     notifyOnExplicit |-> TRUE,
     askBeforeDowngrade |-> TRUE,
     minConversationLength |-> 50,
     minMessageCount |-> 1,
     defaultTier |-> "silent",
     scoringModel |-> Undefined]

ConfigFields == DOMAIN DEFAULT_SCORING_CONFIG

\* { ...base, ...partial }: the fields the partial carries replace the base's
Merge(base, partial) ==
    [f \in ConfigFields |->
        IF f \in DOMAIN partial THEN partial[f] ELSE base[f]]

\* a constructor that rejects only ephemeralThreshold > explicitThreshold
ConstructorThrows_Strict(partial) ==
    LET merged == Merge(DEFAULT_SCORING_CONFIG, partial)
    IN  merged.ephemeralThreshold > merged.explicitThreshold

\* the constructor's validation: does new MemoryScorer(adapter, partial) throw?
ConstructorThrows(partial) ==
    LET merged == Merge(DEFAULT_SCORING_CONFIG, partial)
    IN  merged.ephemeralThreshold >= merged.explicitThreshold

\* this.config after a construction that did not throw
Constructed(partial) == Merge(DEFAULT_SCORING_CONFIG, partial)

\* updateConfig without the restoring of the previous thresholds
updateConfig_NoRestore(cfg, partial) == Merge(cfg, partial)

\* updateConfig dropping the whole partial when its thresholds are invalid
updateConfig_RejectAll(cfg, partial) ==
    LET merged == Merge(cfg, partial)
    IN  IF merged.ephemeralThreshold >= merged.explicitThreshold
        THEN cfg
        ELSE merged

\* this.config after updateConfig(partial)
updateConfig(cfg, partial) ==
    LET merged == Merge(cfg, partial)
    IN  IF merged.ephemeralThreshold >= merged.explicitThreshold
        THEN [merged EXCEPT !.ephemeralThreshold = cfg.ephemeralThreshold,
                            !.explicitThreshold = cfg.explicitThreshold]
        ELSE merged

\* determineTier counting a score equal to ephemeralThreshold as ephemeral
determineTier_EphemeralInclusive(cfg, score) ==
    IF score >= cfg.explicitThreshold THEN "explicit"
    ELSE IF score > cfg.ephemeralThreshold THEN "silent"
    ELSE "ephemeral"

\* determineTier with a strict comparison against explicitThreshold
determineTier_Strict(cfg, score) ==
    IF score > cfg.explicitThreshold THEN "explicit"
    ELSE IF score >= cfg.ephemeralThreshold THEN "silent"
    ELSE "ephemeral"

\* MemoryScorer.determineTier
determineTier(cfg, score) ==
    IF score >= cfg.explicitThreshold THEN "explicit"
    ELSE IF score >= cfg.ephemeralThreshold THEN "silent"
    ELSE "ephemeral"

\* determineAction without the explicit-marker override
determineAction_NoOverride(tier, hasExplicit) ==
    IF tier = "explicit" THEN "store_explicit"
    ELSE IF tier = "silent" THEN "store_silent"
    ELSE "store_ephemeral"

\* MemoryScorer.determineAction
determineAction(tier, hasExplicit) ==
    IF tier = "explicit" \/ hasExplicit THEN "store_explicit"
    ELSE IF tier = "silent" THEN "store_silent"
    ELSE "store_ephemeral"

---------------------------------------------------------------------------
(* Heuristic feature extractors.  The lexicons are the source's.           *)

ExplicitMarkers ==
    <<"remember", "dont forget", "don't forget", "important", "note that",
      "keep in mind", "make sure to", "never forget", "always remember",
      "will need this", "save this", "store this", "always", "never",
      "must remember", "critical", "vital", "essential">>

EmotionPositive ==
    <<"love", "excited", "happy", "great", "awesome", "amazing", "fantastic",
      "wonderful">>
EmotionNegative ==
    <<"hate", "frustrated", "annoyed", "angry", "upset", "disappointed",
      "sad", "terrible">>
EmotionPreference ==
    <<"prefer", "like", "dislike", "want", "need", "wish", "hope", "love",
      "hate">>
EmotionConcern == <<"worried", "concerned", "afraid", "scared", "nervous">>

TimeUrgent ==
    <<"urgent", "asap", "immediately", "right now", "emergency", "critical">>
TimeDeadline ==
    <<"deadline", "due", "by monday", "by friday", "by tomorrow",
      "end of day", "eod">>
TimeFuture ==
    <<"tomorrow", "today", "next week", "upcoming", "soon", "this month",
      "next month", "schedule", "remind me">>
TimeRecurring ==
    <<"every week", "daily", "weekly", "monthly", "recurring", "always">>

UtilityHigh ==
    <<"preference", "prefer", "like", "dislike", "love", "hate",
      "password", "credentials", "login", "account",
      "project", "goal", "objective",
      "meeting", "schedule", "appointment",
      "configuration", "config", "setup", "install">>
UtilityMedium ==
    <<"information", "fact", "detail", "remember", "note",
      "work", "task", "todo", "learn", "study", "research">>
UtilityLow ==
    <<"hello", "hi", "thanks", "thank you", "okay", "sure",
      "question", "what", "how", "why">>

\* detectExplicitMarkers matching the markers against the text as written
detectExplicitMarkers_CaseSensitive(content) ==
    SomeIncluded(content, ExplicitMarkers)

\* MemoryScorer.detectExplicitMarkers
detectExplicitMarkers(content) ==
    SomeIncluded(ToLowerCase(content), ExplicitMarkers)

\* MemoryScorer.detectEmotionalContent
detectEmotionalContent(content) ==
    LET lowerContent == ToLowerCase(content)
    IN  Min(2 * Hits(lowerContent, EmotionPreference)
            + 2 * Hits(lowerContent, EmotionNegative)
            + 3 * Hits(lowerContent, EmotionConcern)
            + Hits(lowerContent, EmotionPositive), 10)

\* MemoryScorer.detectTimeSensitivity
detectTimeSensitivity(content) ==
    LET lowerContent == ToLowerCase(content)
    IN  Min(3 * Hits(lowerContent, TimeUrgent)
            + 3 * Hits(lowerContent, TimeDeadline)
            + 2 * Hits(lowerContent, TimeFuture)
            + 2 * Hits(lowerContent, TimeRecurring), 10)

\* predictFutureUtility without the `break`s: every indicator found counts
predictFutureUtility_NoBreak(content, segments) ==
    IF Len(content) < 20 THEN 5
    ELSE
      LET lowerContent == ToLowerCase(content)
          long == IF Len(segments) > 3 THEN 1 ELSE 0
      IN  Max(0, Min(5 + 2 * Hits(lowerContent, UtilityHigh)
                       + Hits(lowerContent, UtilityMedium) + long, 10))

\* MemoryScorer.predictFutureUtility
predictFutureUtility(content, segments) ==
    IF Len(content) < 20 THEN 5
    ELSE
      LET lowerContent == ToLowerCase(content)
          high == IF SomeIncluded(lowerContent, UtilityHigh) THEN 2 ELSE 0
          medium == IF SomeIncluded(lowerContent, UtilityMedium) THEN 1 ELSE 0
          low == IF \E i \in 1..Len(UtilityLow) :
                       \/ lowerContent = UtilityLow[i]
                       \/ StartsWith(lowerContent, UtilityLow[i] \o " ")
                 THEN 2 ELSE 0
          long == IF Len(segments) > 3 THEN 1 ELSE 0
      IN  Max(0, Min(5 + high + medium - low + long, 10))

---------------------------------------------------------------------------
(* Similarity-dependent extractors.  A recalled result is                  *)
(* [relevance, tier]; relevance is in tenths (relevanceScore = k/10, as    *)
(* Neo4jAdapter.mapResults and GraphitiMCPAdapter produce it).             *)

RECURSIVE SumRelevance(_)
SumRelevance(results) ==
    IF Len(results) = 0 THEN 0
    ELSE Head(results).relevance + SumRelevance(Tail(results))

CountTier(results, tier) ==
    Cardinality({i \in 1..Len(results) : results[i].tier = tier})

Relevances(results) == {results[i].relevance : i \in 1..Len(results)}

\* Math.round(avgSimilarity * 10) in IEEE-754 doubles, for at most three
\* results: round half up of sum/n, except that (0.6 + 0.7) / 2 * 10 is
\* 6.499999999999999 and rounds to 6.
RoundAvgTimes10(results) ==
    LET n == Len(results)
        sum == SumRelevance(results)
    IN  IF n = 2 /\ Relevances(results) = {6, 7} THEN 6
        ELSE (2 * sum + n) \div (2 * n)

\* Math.round((1 - avgSimilarity) * 10) in IEEE-754 doubles, for at most
\* three results: round half up of (10n - sum)/n, except that
\* (1 - (0.8 + 0.9) / 2) * 10 is 1.4999999999999991 and rounds to 1.
RoundComplementTimes10(results) ==
    LET n == Len(results)
        sum == SumRelevance(results)
    IN  IF n = 2 /\ Relevances(results) = {8, 9} THEN 1
        ELSE (2 * (10 * n - sum) + n) \div (2 * n)

\* MemoryScorer.checkRepetitionFromResults
checkRepetitionFromResults(results, segments) ==
    LET content == JoinContents(segments, " ")
    IN  IF Len(content) < 20 THEN 0
        ELSE IF Len(results) = 0 THEN 0
        ELSE RoundAvgTimes10(results)

\* MemoryScorer.checkContextAnchoringFromResults
checkContextAnchoringFromResults(results) ==
    IF Len(results) = 0 THEN 0
    ELSE Min(CountTier(results, "explicit") * 3
             + CountTier(results, "silent") * 2, 10)

\* MemoryScorer.checkNoveltyFromResults
checkNoveltyFromResults(results, content) ==
    IF Len(content) < 20 THEN 5
    ELSE IF Len(results) = 0 THEN 10
    ELSE RoundComplementTimes10(results)

\* MemoryScorer.calculateWeightedScore.  The weights are in tenths, so the
\* weighted sum is tenths/10 and maxPossible is 103; the quotient times 10
\* is tenths/103, which is never half way between two integers.
calculateWeightedScore(factors) ==
    LET tenths == factors.explicit_emphasis * 20
                  + factors.emotional_weight * 15
                  + factors.future_utility * 18
                  + factors.repetition * 13
                  + factors.time_sensitivity * 15
                  + factors.context_anchoring * 12
                  + factors.novelty * 10
    IN  Min((2 * tenths + 103) \div 206, 10)

\* MemoryScorer.generateReasoning: the score, the tier and the reasons
generateReasoning(score, tier, f) ==
    LET reasons ==
          (IF f.hasExplicit THEN {"user explicitly asked to remember"} ELSE {})
          \cup (IF f.emotionalWeight > 3
                THEN {"emotional/preference content detected"} ELSE {})
          \cup (IF f.repetitionScore > 5 THEN {"repeated information"} ELSE {})
          \cup (IF f.repetitionScore < 3 THEN {"new, unique information"} ELSE {})
          \cup (IF f.contextAnchoring > 5
                THEN {"connects to existing memories"} ELSE {})
          \cup (IF f.timeSensitivity > 3
                THEN {"time-sensitive information"} ELSE {})
          \cup (IF f.novelty > 7 THEN {"novel information"} ELSE {})
          \cup (IF f.futureUtility > 7
                THEN {"high future utility predicted"} ELSE {})
          \cup (IF f.futureUtility < 3 THEN {"low future utility"} ELSE {})
    IN  <<"heuristic", score, tier,
          IF reasons = {} THEN {"routine conversation"} ELSE reasons>>


---------------------------------------------------------------------------
(* The external scoring model.  A response of the endpoint is              *)
(* [kind, score, tier, reasoning]: the kinds are the ways the request can  *)
(* end, and for "json_object" the content parsed to an object whose score, *)
(* tier and reasoning fields are optional.                                 *)

FailureKinds ==
    {"refused",        \* fetch rejects: connection refused
     "timeout",        \* the timer aborts the request, fetch rejects
     "http_error",     \* !res.ok
     "bad_body",       \* res.json() throws: empty or unparsable body
     "empty_content",  \* no choices[0].message.content
     "bad_json",       \* JSON.parse(cleaned) throws
     "json_null"}      \* content is "null": parsed.score throws a TypeError

NoResponse ==
    [kind |-> "unused", score |-> None, tier |-> None, reasoning |-> None]

\* scoreWithLocalModel reading a field of a parsed null without throwing
LocalModelThrows_NullPasses(response) ==
    response.kind \in FailureKinds \ {"json_null"}

\* does scoreWithLocalModel throw on this response?
LocalModelThrows(response) == response.kind \in FailureKinds

\* Math.max(0, Math.min(10, Math.round(Number(parsed.score) || 5)))
RawScore(score) ==
    LET n == IF score = None THEN 5
             ELSE LET v == CHOOSE x \in score : TRUE
                  IN  IF v = 0 THEN 5 ELSE v
    IN  Max(0, Min(10, n))

\* expiresInHours of a result of tier `tier`
ExpiresInHours(cfg, tier) ==
    IF tier = "ephemeral" THEN Some(cfg.defaultEphemeralHours)
    ELSE IF tier = "silent" THEN Some(cfg.defaultSilentDays * 24)
    ELSE None

\* MemoryScorer.scoreWithLocalModel, when it returns
scoreWithLocalModel(cfg, hasExplicit, response) ==
    LET rawScore == RawScore(response.score)
        tier == determineTier(cfg, rawScore)
    IN  [score |-> rawScore,
         tier |-> tier,
         reasoning |-> <<"[LLM]", IF response.reasoning = None
                                  THEN "No reasoning provided"
                                  ELSE CHOOSE r \in response.reasoning : TRUE>>,
         expiresInHours |-> ExpiresInHours(cfg, tier),
         recommendedAction |-> determineAction(tier, hasExplicit)]

---------------------------------------------------------------------------
(* The storage collaborator's recall, as the scorer sees it: it rejects,   *)
(* or it resolves to a list of results.                                    *)

NoRecall == [rejects |-> FALSE, results |-> <<>>, called |-> FALSE]
RecallRejects == [rejects |-> TRUE, results |-> <<>>, called |-> TRUE]
RecallReturns(results) ==
    [rejects |-> FALSE, results |-> results, called |-> TRUE]

---------------------------------------------------------------------------
(* scoreConversation.                                                      *)

\* segments.reduce((sum, s) => sum + s.content.length, 0)
RECURSIVE TotalLength(_)
TotalLength(segments) ==
    IF Len(segments) = 0 THEN 0
    ELSE Len(Head(segments).content) + TotalLength(Tail(segments))

\* what the extractors that read only the text return for a conversation
TextFeatures(segments) ==
    LET fullContent == JoinContents(segments, "\n")
    IN  [fullContent |-> fullContent,
         fullLength |-> Len(fullContent),
         totalLength |-> TotalLength(segments),
         hasExplicit |-> detectExplicitMarkers(fullContent),
         emotionalWeight |-> detectEmotionalContent(fullContent),
         timeSensitivity |-> detectTimeSensitivity(fullContent),
         futureUtility |-> predictFutureUtility(fullContent, segments)]

\* the disabled fast path (lines 153-162)
DisabledResult(cfg) ==
    LET tier == cfg.defaultTier
    IN  [score |-> IF tier = "explicit" THEN 9
                   ELSE IF tier = "silent" THEN 6 ELSE 3,
         tier |-> tier,
         reasoning |-> <<"Scoring disabled", tier>>,
         expiresInHours |-> None,
         recommendedAction |->
             IF tier = "explicit" THEN "store_explicit"
             ELSE IF tier = "silent" THEN "store_silent"
             ELSE "store_ephemeral"]

\* the result of the gating short-circuit (lines 174-179)
TrivialResult ==
    [score |-> 2,
     tier |-> "ephemeral",
     reasoning |-> <<"Conversation too short/trivial">>,
     expiresInHours |-> None,
     recommendedAction |-> "store_ephemeral"]

\* a gating condition that looks at the length alone
Gated_LengthOnly(cfg, segments, text) ==
    /\ text.totalLength < cfg.minConversationLength
    /\ ~text.hasExplicit

\* the gating condition (lines 168-173)
Gated(cfg, segments, text) ==
    /\ \/ text.totalLength < cfg.minConversationLength
       \/ Len(segments) < cfg.minMessageCount
    /\ ~text.hasExplicit

\* is a scoring model configured (line 185)?
ModelConfigured(cfg) == cfg.scoringModel \notin {Undefined, "none"}

\* a recall call made whatever the length of the content
RecallNeeded_AnyLength(text) == text.fullLength >= 0

\* does the heuristic path call adapter.recall (line 203)?
RecallNeeded(text) == text.fullLength >= 20

\* recallResults after the try/catch around adapter.recall (lines 201-208)
RecallResults(text, recall) ==
    IF RecallNeeded(text) /\ ~recall.rejects THEN recall.results ELSE <<>>

\* the seven factors given to calculateWeightedScore (lines 210-223)
HeuristicFactors(segments, text, recallResults) ==
    [explicit_emphasis |-> IF text.hasExplicit THEN 10 ELSE 0,
     emotional_weight |-> text.emotionalWeight,
     future_utility |-> text.futureUtility,
     repetition |-> checkRepetitionFromResults(recallResults, segments),
     time_sensitivity |-> text.timeSensitivity,
     context_anchoring |-> checkContextAnchoringFromResults(recallResults),
     novelty |-> checkNoveltyFromResults(recallResults, text.fullContent)]

\* the heuristic path from the three checks on (lines 210-246)
HeuristicScored(cfg, segments, text, recallResults) ==
    LET factors == HeuristicFactors(segments, text, recallResults)
        repetitionScore == factors.repetition
        contextAnchoring == factors.context_anchoring
        novelty == factors.novelty
        score == calculateWeightedScore(factors)
        tier == determineTier(cfg, score)
    IN  [score |-> score,
         tier |-> tier,
         reasoning |-> generateReasoning(score, tier,
             [hasExplicit |-> text.hasExplicit,
              emotionalWeight |-> text.emotionalWeight,
              repetitionScore |-> repetitionScore,
              contextAnchoring |-> contextAnchoring,
              timeSensitivity |-> text.timeSensitivity,
              novelty |-> novelty,
              futureUtility |-> text.futureUtility]),
         expiresInHours |-> ExpiresInHours(cfg, tier),
         recommendedAction |-> determineAction(tier, text.hasExplicit)]

\* the heuristic path without the try/catch around adapter.recall
HeuristicResult_NoCatch(cfg, segments, text, recall) ==
    IF RecallNeeded(text) /\ recall.rejects THEN Thrown
    ELSE HeuristicScored(cfg, segments, text, recall.results)

\* the heuristic path (lines 194-246); `recall` is what adapter.recall did
HeuristicResult(cfg, segments, text, recall) ==
    HeuristicScored(cfg, segments, text, RecallResults(text, recall))

\* a scoreConversation that looks for explicit markers before it looks at
\* `enabled`
ScorePath_MarkerFirst(cfg, segments, text, response) ==
    IF text.hasExplicit THEN "heuristic"
    ELSE IF ~cfg.enabled THEN "disabled"
    ELSE IF Gated(cfg, segments, text) THEN "trivial"
    ELSE "heuristic"

\* the path scoreConversation takes
ScorePath(cfg, segments, text, response) ==
    IF ~cfg.enabled THEN "disabled"
    ELSE IF Gated(cfg, segments, text) THEN "trivial"
    ELSE IF ModelConfigured(cfg) /\ ~LocalModelThrows(response) THEN "model"
    ELSE "heuristic"

\* MemoryScorer.scoreConversation: what it resolves to
scoreConversation(cfg, segments, text, response, recall) ==
    LET path == ScorePath(cfg, segments, text, response)
    IN  IF path = "disabled" THEN DisabledResult(cfg)
        ELSE IF path = "trivial" THEN TrivialResult
        ELSE IF path = "model"
             THEN scoreWithLocalModel(cfg, text.hasExplicit, response)
        ELSE HeuristicResult(cfg, segments, text, recall)


---------------------------------------------------------------------------
(* Inputs.                                                                 *)

Seg(role, content) == [content |-> content, role |-> role]

Conversations ==
    { <<Seg("user", "hi there")>>,
      <<Seg("user", "remember the milk")>>,
      <<Seg("user", "we met at the cafe on main street")>>,
      <<Seg("user",
            "the project meeting is scheduled for next week in the main office")>>,
      <<Seg("user", "the project meeting is next week in the main office")>>,
      <<Seg("user", "I really love dark mode, please remember this forever")>>,
      <<Seg("user",
            "NEVER share the admin password with anyone outside the team")>>,
      <<Seg("user", "hello how are you doing today"),
        Seg("assistant", "i am fine thanks"),
        Seg("user", "what about the report"),
        Seg("assistant", "it is due by friday")>> }

\* the text extractors' values of a set of conversations, as a table
RECURSIVE TextTable(_)
TextTable(conversations) ==
    IF conversations = {} THEN << >>
    ELSE LET segments == CHOOSE c \in conversations : TRUE
         IN  (segments :> TextFeatures(segments))
             @@ TextTable(conversations \ {segments})

\* a conversation with a marker, emotional and time words beyond the caps,
\* high and medium utility words and more than three segments
LoudConversation ==
    <<Seg("user", "remember i love and prefer this project"),
      Seg("assistant", "ok"),
      Seg("user", "i hate being worried about the deadline today"),
      Seg("assistant", "is it urgent or asap")>>

\* a long greeting: a low utility opening and no other indicator
FlatConversation ==
    <<Seg("user",
          "hi there how are you doing on this fine and sunny afternoon")>>

FactorConversations == Conversations \cup {LoudConversation, FlatConversation}

\* the text extractors' values, computed once per conversation
TextOf == TextTable(FactorConversations)

\* the largest score the external model answers with (and -1 below 0)
MaxModelScore == 11
ModelScores == (0 - 1)..MaxModelScore

\* the tier labels the external model answers with
ModelTiers == {None, Some("explicit"), Some("ephemeral")}

Responses ==
    [kind : FailureKinds, score : {None}, tier : {None}, reasoning : {None}]
    \cup [kind : {"json_object"},
          score : {None} \cup {Some(n) : n \in ModelScores},
          tier : ModelTiers,
          reasoning : {None, Some("stated preference")}]

\* the results recall can return, and how many of them at most
MaxRecall == 2
RecallPool ==
    { [relevance |-> 6, tier |-> "explicit"],
      [relevance |-> 7, tier |-> "silent"],
      [relevance |-> 10, tier |-> "ephemeral"] }

RECURSIVE SeqsUpTo(_, _)
SeqsUpTo(S, n) ==
    IF n = 0 THEN {<<>>}
    ELSE LET shorter == SeqsUpTo(S, n - 1)
         IN  shorter \cup {Append(q, x) : q \in shorter, x \in S}

RecallOutcomes ==
    {RecallRejects} \cup {RecallReturns(r) : r \in SeqsUpTo(RecallPool, MaxRecall)}

\* a partial configuration: a record carrying some of the fields
EmptyPartial == [f \in {} |-> 0]
OptField(name, values) == {EmptyPartial} \cup {name :> v : v \in values}

\* the thresholds updateConfig and the constructor are given when scoring
ScoreThresholds == {0, 2, 4, 8, 10}

ThresholdPartials(values) ==
    {e @@ x : e \in OptField("ephemeralThreshold", values),
              x \in OptField("explicitThreshold", values)}

OtherPartials ==
    OptField("enabled", BOOLEAN)
    \cup OptField("defaultTier", Tiers)
    \cup OptField("scoringModel", {"none", "llamacpp"})
    \cup OptField("minMessageCount", {1, 2})

ScorePartials ==
    {t @@ o : t \in ThresholdPartials(ScoreThresholds), o \in OtherPartials}

---------------------------------------------------------------------------
(* The Neo4j store (src/src/adapters/neo4j-adapter.ts).  A Memory node is  *)
(* a record; `node` is the identity Neo4j gives it, `id` the property      *)
(* store() computes.  Dates are milliseconds.  The properties score,       *)
(* source, tags and lastReinforced are left out: stores carry no tags, so  *)
(* getRelated matches on content alone.                                    *)

\* `memory-${Date.now()}`: the id of a record stored at millisecond t
MemoryId(t) == t

\* metadata.X || fallback, metadata.X ?? fallback
FieldOr(metadata, field, fallback) ==
    IF field \in DOMAIN metadata THEN metadata[field] ELSE fallback

\* Neo4jAdapter.store: CREATE (m:Memory {...}); no uniqueness is asked of id
store(ns, node, t, content, metadata) ==
    ns \cup {[node |-> node,
              id |-> MemoryId(t),
              content |-> content,
              tier |-> FieldOr(metadata, "tier", "silent"),
              createdAt |-> t,
              expiresAt |-> IF "expiresAt" \in DOMAIN metadata
                            THEN Some(metadata.expiresAt) ELSE None,
              reinforcementCount |-> FieldOr(metadata, "reinforcementCount", 0)]}

\* Neo4jAdapter.forget: MATCH (m:Memory {id: $id}) DETACH DELETE m
forget(ns, id) == {m \in ns : m.id # id}

\* Neo4jAdapter.update: MATCH (m:Memory {id: $id}) SET m += {content, tier?,
\* expiresAt?}, on every node that carries the id
update(ns, id, content, metadata) ==
    {IF m.id # id THEN m
     ELSE [m EXCEPT !.content = content,
                    !.tier = FieldOr(metadata, "tier", m.tier),
                    !.expiresAt = IF "expiresAt" \in DOMAIN metadata
                                  THEN Some(metadata.expiresAt)
                                  ELSE m.expiresAt] : m \in ns}

\* substring(m1.content, 0, 50)
ContentPrefix == 50
Prefix(content) == SubSeq(content, 1, Min(Len(content), ContentPrefix))

\* Neo4jAdapter.getRelated: the nodes m2 with another id than $id whose
\* content CONTAINS the first 50 characters of a node m1 with id $id
getRelated(ns, id) ==
    {m2 \in ns : \E m1 \in ns : /\ m1.id = id
                                /\ m1.id # m2.id
                                /\ Includes(m2.content, Prefix(m1.content))}

\* the orders in which a query may return a set of nodes under
\* ORDER BY m.createdAt DESC: nodes of one millisecond come in any order
RECURSIVE Ordered(_)
Ordered(ms) ==
    IF ms = {} THEN {<<>>}
    ELSE LET latest == {m \in ms : \A o \in ms : m.createdAt >= o.createdAt}
         IN  UNION {{<<m>> \o rows : rows \in Ordered(ms \ {m})} :
                      m \in latest}

\* mapResults: the MemoryResult of a node (id, content and the metadata a
\* later update() reads)
MemoryResult(m) ==
    [id |-> m.id, content |-> m.content,
     metadata |-> IF m.expiresAt = None
                  THEN [tier |-> m.tier]
                  ELSE [tier |-> m.tier,
                        expiresAt |-> CHOOSE t \in m.expiresAt : TRUE]]

\* Neo4jAdapter.list(limit, tier): the results it may return
list(ns, limit, tier) ==
    {[i \in 1..Min(Len(rows), limit) |-> MemoryResult(rows[i])] :
        rows \in Ordered({m \in ns : m.tier = tier})}

\* cleanup, first query: MATCH (m:Memory {tier: 'ephemeral'}) WHERE
\* m.expiresAt IS NOT NULL AND m.expiresAt < $now DETACH DELETE m
Expired(m, t) ==
    /\ m.tier = "ephemeral"
    /\ \E e \in m.expiresAt : e < t

cleanupDelete(ns, t) == {m \in ns : ~Expired(m, t)}

\* cleanup, second query: MATCH (m:Memory {tier: 'ephemeral'}) WHERE
\* m.reinforcementCount >= 2 SET m.tier = 'silent'
PromotionThreshold == 2

Reinforced(m) ==
    /\ m.tier = "ephemeral"
    /\ m.reinforcementCount >= PromotionThreshold

cleanupUpgrade(ns) ==
    {IF Reinforced(m) THEN [m EXCEPT !.tier = "silent"] ELSE m : m \in ns}

\* Neo4jAdapter.cleanup() is not running
CleanupIdle == [pc |-> "idle", deleted |-> 0]

---------------------------------------------------------------------------
(* MemoryScorer.processReinforcements as a process: it awaits list(), then *)
(* for each listed record getRelated() and, if something is related,       *)
(* update().  `log` remembers, for each record of the batch the loop has   *)
(* reached, whether the store held a related record when getRelated() was  *)
(* called, whether a call on the record rejected, whether update()        *)
(* resolved and how many nodes that update took from ephemeral to silent.  *)

ListLimit == 50

SweepIdle ==
    [pc |-> "idle", batch |-> <<>>, i |-> 0, upgraded |-> 0, log |-> <<>>]

\* the for loop moves to the next record, or the sweep returns
NextRecord(s) ==
    IF s.i < Len(s.batch)
    THEN [s EXCEPT !.pc = "getRelated", !.i = s.i + 1]
    ELSE [s EXCEPT !.pc = "done"]

\* the list() call resolved with the batch
Listed(batch) == NextRecord([SweepIdle EXCEPT !.batch = batch])

\* a per-record failure that escapes the loop
OnRecordFailure_Abort(s) ==
    [s EXCEPT !.pc = "thrown", !.log[s.i].failed = TRUE]

\* catch (err) { console.error(...) } inside the loop: the failure is
\* logged and the loop goes on
OnRecordFailure(s) == NextRecord([s EXCEPT !.log[s.i].failed = TRUE])

\* update() resolved: upgraded++
OnUpgraded(s) ==
    NextRecord([s EXCEPT !.upgraded = @ + 1, !.log[s.i].updated = TRUE])

\* the processes that may run processReinforcements at the same time
Sweepers == {1, 2}

\* no operation on the store is in progress and the database is empty
StoreIdle ==
    /\ now = 0
    /\ nodes = {}
    /\ made = 0
    /\ cleanup = CleanupIdle
    /\ sweeps = [p \in Sweepers |-> SweepIdle]

---------------------------------------------------------------------------
(* The scorer as a state machine: the host calls an operation, the         *)
(* operation returns, the host takes the result.                           *)

\* what scoreConversation reads of the configuration before its first
\* await: enabled, the two gating limits and scoringModel
EntryReads(cfg) ==
    [enabled |-> cfg.enabled,
     minConversationLength |-> cfg.minConversationLength,
     minMessageCount |-> cfg.minMessageCount,
     scoringModel |-> cfg.scoringModel]

Idle(cfg) ==
    [op |-> "idle", partial |-> EmptyPartial, prev |-> cfg,
     segments |-> <<>>, response |-> NoResponse, recall |-> NoRecall,
     path |-> "none", pc |-> "idle", entry |-> EntryReads(cfg)]

\* new MemoryScorer(adapter, partial) that did not throw
Init ==
    /\ \E p \in ScorePartials :
          /\ ~ConstructorThrows(p)
          /\ config = Constructed(p)
    /\ result = NoResult
    /\ call = Idle(config)
    /\ StoreIdle

\* scorer.updateConfig(partial)
UpdateConfigWith(partials) ==
    /\ call.op = "idle"
    /\ \E p \in partials :
          /\ config' = updateConfig(config, p)
          /\ call' = [Idle(config) EXCEPT !.op = "updateConfig", !.partial = p]
    /\ result' = NoResult
    /\ UNCHANGED storeVars

UpdateConfig == UpdateConfigWith(ScorePartials)

\* scorer.scoreConversation(segments) is called and runs to its first
\* await: the disabled and the gated call return at once, the others are
\* suspended in await scoreWithLocalModel (pc "fetch") or, with no scoring
\* model, in the awaits of the heuristic path (pc "heuristic").  While a
\* call is suspended call.op is "scoring"; "scoreConversation" is the call
\* that has resolved.
ScoreConversationOver(conversations) ==
    /\ call.op = "idle"
    /\ \E segments \in conversations :
         LET text == TextOf[segments]
             path == ScorePath(config, segments, text, NoResponse)
             begun == [Idle(config) EXCEPT !.segments = segments]
         IN  IF path \in {"disabled", "trivial"}
             THEN /\ result' = scoreConversation(config, segments, text,
                                                 NoResponse, NoRecall)
                  /\ call' = [begun EXCEPT !.op = "scoreConversation",
                                           !.pc = "returned",
                                           !.path = path]
             ELSE /\ result' = NoResult
                  /\ call' = [begun EXCEPT
                                !.op = "scoring",
                                !.pc = IF path = "model" THEN "fetch"
                                       ELSE "heuristic"]
    /\ UNCHANGED <<config, storeVars>>

ScoreConversation == ScoreConversationOver(Conversations)

\* the partial configurations given to updateConfig while a scoring call
\* is suspended: lower thresholds, scoring switched off, no scoring model,
\* a higher minMessageCount
MeanwhilePartials ==
    {t @@ o : t \in ThresholdPartials({0, 2}),
              o \in OptField("enabled", {FALSE})
                    \cup OptField("scoringModel", {"none"})
                    \cup OptField("minMessageCount", {2})}

\* scorer.updateConfig(partial) while a scoring call is suspended: the
\* call goes on with the configuration it finds when it resumes
UpdateConfigMeanwhileWith(partials) ==
    /\ call.op = "scoring"
    /\ \E p \in partials :
          /\ config' = updateConfig(config, p)
          /\ call' = [call EXCEPT !.prev = config']   \* as Idle keeps it
    /\ UNCHANGED <<result, storeVars>>

UpdateConfigMeanwhile == UpdateConfigMeanwhileWith(MeanwhilePartials)

\* the request to the scoring model has settled: scoreWithLocalModel
\* returns with the tier of the thresholds now configured, or it throws
\* and scoreConversation goes on to the heuristics
ModelAnswers ==
    /\ call.op = "scoring"
    /\ call.pc = "fetch"
    /\ \E response \in Responses :
          IF LocalModelThrows(response)
          THEN /\ call' = [call EXCEPT !.response = response,
                                       !.pc = "heuristic"]
               /\ UNCHANGED result
          ELSE /\ call' = [call EXCEPT !.op = "scoreConversation",
                                       !.pc = "returned",
                                       !.response = response,
                                       !.path = "model"]
               /\ result' = scoreWithLocalModel(config,
                               TextOf[call.segments].hasExplicit, response)
    /\ UNCHANGED <<config, storeVars>>

\* the heuristic path resumes after await predictFutureUtility: it awaits
\* adapter.recall when the content has 20 characters and returns otherwise
HeuristicsResume ==
    /\ call.op = "scoring"
    /\ call.pc = "heuristic"
    /\ IF RecallNeeded(TextOf[call.segments])
       THEN /\ call' = [call EXCEPT !.pc = "recall"]
            /\ UNCHANGED result
       ELSE /\ call' = [call EXCEPT !.op = "scoreConversation",
                                    !.pc = "returned",
                                    !.path = "heuristic"]
            /\ result' = HeuristicResult(config, call.segments,
                                         TextOf[call.segments], NoRecall)
    /\ UNCHANGED <<config, storeVars>>

\* adapter.recall has returned or rejected, and the heuristic result is
\* computed under the configuration of this moment
RecallAnswersWith(recalls) ==
    /\ call.op = "scoring"
    /\ call.pc = "recall"
    /\ \E recall \in recalls :
          /\ call' = [call EXCEPT !.op = "scoreConversation",
                                  !.pc = "returned",
                                  !.recall = recall,
                                  !.path = "heuristic"]
          /\ result' = HeuristicResult(config, call.segments,
                                       TextOf[call.segments], recall)
    /\ UNCHANGED <<config, storeVars>>

RecallAnswers == RecallAnswersWith(RecallOutcomes)

\* the host has taken what the operation returned (a constructor that threw
\* returned nothing)
Return ==
    /\ call.op \notin {"idle", "unconstructed", "threw", "scoring"}
    /\ call' = Idle(config)
    /\ result' = NoResult
    /\ UNCHANGED <<config, storeVars>>

vars == <<config, result, call, now, nodes, made, cleanup, sweeps>>

Next ==
    \/ UpdateConfig
    \/ ScoreConversation
    \/ UpdateConfigMeanwhile
    \/ ModelAnswers
    \/ HeuristicsResume
    \/ RecallAnswers
    \/ Return

Spec == Init /\ [][Next]_vars


---------------------------------------------------------------------------
(* SpecConfig: the configuration alone, with thresholds from a dense range *)
(* of integers around 0..10, and the tier rule applied to every score.     *)

MaxScore == 10
Scores == 0..MaxScore

\* how far below 0 and above 10 the thresholds given to the scorer range
ThresholdSpan == 2
ThresholdRange == (0 - ThresholdSpan)..(MaxScore + ThresholdSpan)

ConfigPartials ==
    {t @@ o : t \in ThresholdPartials(ThresholdRange),
              o \in OptField("enabled", BOOLEAN)}

InitConfig ==
    /\ \E p \in ConfigPartials :
          /\ ~ConstructorThrows(p)
          /\ config = Constructed(p)
    /\ result = NoResult
    /\ call = Idle(config)
    /\ StoreIdle

UpdateConfigDense == UpdateConfigWith(ConfigPartials)

\* this.determineTier(score)
DetermineTier ==
    /\ call.op = "idle"
    /\ \E score \in Scores :
          result' = [NoResult EXCEPT !.score = score,
                                     !.tier = determineTier(config, score)]
    /\ call' = [Idle(config) EXCEPT !.op = "determineTier"]
    /\ UNCHANGED <<config, storeVars>>

NextConfig == UpdateConfigDense \/ DetermineTier \/ Return

SpecConfig == InitConfig /\ [][NextConfig]_vars

---------------------------------------------------------------------------
(* Claims about the configuration and the tier rule.                       *)

\* C1: after a construction that succeeded and after any sequence of
\* updateConfig calls, whose partial carries either threshold, both or
\* neither, with any integer values, ephemeralThreshold < explicitThreshold.
C1_ThresholdsOrdered == config.ephemeralThreshold < config.explicitThreshold

\* an updateConfig call was given both thresholds in the wrong order
C1_Witness ==
    /\ call.op = "updateConfig"
    /\ {"ephemeralThreshold", "explicitThreshold"} \subseteq DOMAIN call.partial
    /\ call.partial.ephemeralThreshold >= call.partial.explicitThreshold

\* C2: for every score in 0..10 and every threshold pair with
\* ephemeralThreshold < explicitThreshold, determineTier returns explicit
\* exactly when score >= explicitThreshold, silent exactly when
\* ephemeralThreshold <= score < explicitThreshold, and ephemeral exactly
\* when score < ephemeralThreshold.
C2_TierRule ==
    call.op = "determineTier" =>
        /\ result.tier = "explicit" <=> result.score >= config.explicitThreshold
        /\ result.tier = "silent" <=>
              /\ config.ephemeralThreshold <= result.score
              /\ result.score < config.explicitThreshold
        /\ result.tier = "ephemeral" <=> result.score < config.ephemeralThreshold

\* a score equal to the explicit threshold was classified
C2_Witness ==
    /\ call.op = "determineTier"
    /\ result.score = config.explicitThreshold
    /\ result.tier = "explicit"

---------------------------------------------------------------------------
(* Claims about scoreConversation.                                         *)

\* the tier the threshold rule of the specification assigns to a score
\* the configuration as the last scoring call read it: enabled, the gating
\* limits and scoringModel when it was called, the rest when it returned
ConfigRead ==
    [config EXCEPT !.enabled = call.entry.enabled,
                   !.minConversationLength = call.entry.minConversationLength,
                   !.minMessageCount = call.entry.minMessageCount,
                   !.scoringModel = call.entry.scoringModel]

ThresholdRule(cfg, score) ==
    IF score >= cfg.explicitThreshold THEN "explicit"
    ELSE IF score >= cfg.ephemeralThreshold THEN "silent"
    ELSE "ephemeral"

\* C3: every ScoringResult scoreConversation returns, on every path and for
\* every valid threshold pair, has the tier the threshold rule assigns to
\* its own score under the thresholds configured.
C3_TierFollowsScore ==
    call.op = "scoreConversation" =>
        result.tier = ThresholdRule(config, result.score)

\* does the concatenated text of the conversation contain a marker phrase?
ContainsMarker ==
    [segments \in Conversations |->
        \E i \in 1..Len(ExplicitMarkers) :
            Includes(ToLowerCase(JoinContents(segments, "\n")),
                     ExplicitMarkers[i])]

\* C4: with scoring enabled, whenever the concatenated conversation text
\* contains an explicit-marker phrase, scoreConversation returns
\* recommendedAction = store_explicit, whatever the score and the tier, on
\* the heuristic path, on the external-model path and below the gating limits.
C4_MarkerOverride ==
    (/\ call.op = "scoreConversation"
     /\ ConfigRead.enabled
     /\ ContainsMarker[call.segments])
    => result.recommendedAction = "store_explicit"

\* a conversation below the gating limits that holds a marker went to the
\* external model, which scored it ephemeral
C4_Witness ==
    /\ call.op = "scoreConversation"
    /\ ConfigRead.enabled
    /\ ContainsMarker[call.segments]
    /\ TotalLength(call.segments) < ConfigRead.minConversationLength
    /\ call.path = "model"
    /\ result.tier = "ephemeral"

\* a ScoringResult of the declared shape
WellFormed(r) ==
    /\ r.score \in Scores
    /\ r.tier \in Tiers
    /\ r.recommendedAction \in Actions

\* C5: if the storage collaborator's recall rejects, scoreConversation
\* still completes without throwing and returns a well-formed
\* ScoringResult: an integer score in 0..10, a tier and a recommendedAction.
C5_RecallFailureAbsorbed ==
    (call.op = "scoreConversation" /\ call.recall.rejects)
    => (result # Thrown /\ WellFormed(result))

\* a scoring call whose recall rejected
C5_Witness ==
    /\ call.op = "scoreConversation"
    /\ call.recall.rejects
    /\ call.path = "heuristic"

\* C6: when an external scoring model is configured and the call to it
\* fails, scoreConversation returns a result equal field for field to the
\* result of the heuristic pipeline for the same input, configuration and
\* storage contents when no external model is configured.
C6_FallbackIsHeuristic ==
    (/\ call.op = "scoreConversation"
     /\ ConfigRead.enabled
     /\ ConfigRead.scoringModel \notin {Undefined, "none"}
     /\ call.response.kind \in FailureKinds)
    => result = scoreConversation([ConfigRead EXCEPT !.scoringModel = Undefined],
                                  call.segments, TextOf[call.segments],
                                  NoResponse, call.recall)

\* the request to the configured model timed out and recall was consulted
C6_Witness ==
    /\ call.op = "scoreConversation"
    /\ ConfigRead.scoringModel = "llamacpp"
    /\ call.response.kind = "timeout"
    /\ call.recall.called
    /\ Len(call.recall.results) = 2
    /\ result.score \in Scores

---------------------------------------------------------------------------
(* The store as a state machine.                                           *)

\* how far the clock runs, and how many nodes are ever created
MaxClock == 1
MaxStores == 3

\* what is stored
Contents == {"dark mode", "user prefers dark mode"}

\* how many milliseconds after the store a record with an expiry expires
\* (0: with the millisecond that stored it)
ExpiryDelay == 0

\* the metadata given to adapter.store at millisecond t: none, an explicit
\* record, and ephemeral records with an expiry, unreinforced and reinforced
StoreMetadata(t) ==
    {EmptyPartial,
     [tier |-> "explicit"],
     [tier |-> "ephemeral", expiresAt |-> t + ExpiryDelay],
     [tier |-> "ephemeral", expiresAt |-> t + ExpiryDelay,
      reinforcementCount |-> PromotionThreshold]}

\* whether a call to the database resolves or rejects
Resolves == {"resolves"}
MayReject == {"resolves", "rejects"}

\* a millisecond passes
Tick ==
    /\ now < MaxClock
    /\ now' = now + 1
    /\ UNCHANGED <<scorerVars, nodes, made, cleanup, sweeps>>

\* await adapter.store(content, metadata)
StoreWith(metadata) ==
    /\ made < MaxStores
    /\ \E content \in Contents, md \in metadata :
          nodes' = store(nodes, made + 1, now, content, md)
    /\ made' = made + 1
    /\ UNCHANGED <<scorerVars, now, cleanup, sweeps>>

Store == StoreWith(StoreMetadata(now))

\* await adapter.forget(id), for the id of a stored record
Forget ==
    /\ \E m \in nodes : nodes' = forget(nodes, m.id)
    /\ UNCHANGED <<scorerVars, now, made, cleanup, sweeps>>

\* adapter.cleanup(): the delete query has run
CleanupDelete ==
    /\ cleanup.pc = "idle"
    /\ nodes' = cleanupDelete(nodes, now)
    /\ cleanup' = [pc |-> "deleted",
                   deleted |-> Cardinality(nodes) - Cardinality(nodes')]
    /\ UNCHANGED <<scorerVars, now, made, sweeps>>

\* adapter.cleanup(): the upgrade query has run and the call returns
CleanupUpgrade ==
    /\ cleanup.pc = "deleted"
    /\ nodes' = cleanupUpgrade(nodes)
    /\ cleanup' = CleanupIdle
    /\ UNCHANGED <<scorerVars, now, made, sweeps>>

\* processReinforcements(): adapter.list(50, 'ephemeral') has resolved or
\* rejected
SweepList(p, outcomes) ==
    /\ sweeps[p].pc = "idle"
    /\ \E outcome \in outcomes :
          IF outcome = "rejects"
          THEN sweeps' = [sweeps EXCEPT ![p] = Listed(<<>>)]
          ELSE \E batch \in list(nodes, ListLimit, "ephemeral") :
                  sweeps' = [sweeps EXCEPT ![p] = Listed(batch)]
    /\ UNCHANGED <<scorerVars, now, nodes, made, cleanup>>

\* processReinforcements(): adapter.getRelated(memory.id, 1) has resolved
\* or rejected
SweepGetRelated(p, outcomes) ==
    LET related == getRelated(nodes, sweeps[p].batch[sweeps[p].i].id)
        entry == [related |-> related # {}, failed |-> FALSE,
                  updated |-> FALSE, promoted |-> 0]
        s == [sweeps[p] EXCEPT !.log = Append(@, entry)]
    IN
    /\ sweeps[p].pc = "getRelated"
    /\ \E outcome \in outcomes :
          sweeps' = [sweeps EXCEPT ![p] =
              IF outcome = "rejects" THEN OnRecordFailure(s)
              ELSE IF Cardinality(related) > 0
                   THEN [s EXCEPT !.pc = "update"]
                   ELSE NextRecord(s)]
    /\ UNCHANGED <<scorerVars, now, nodes, made, cleanup>>

\* how many nodes a write has taken from ephemeral to silent
Promoted(before, after) ==
    Cardinality({m \in before : /\ m.tier = "ephemeral"
                                /\ \E x \in after : /\ x.node = m.node
                                                     /\ x.tier = "silent"})

\* processReinforcements(): adapter.update(memory.id, memory.content,
\* {...memory.metadata, tier: 'silent'}) has resolved or rejected
SweepUpdate(p, outcomes) ==
    LET s == sweeps[p]
        memory == s.batch[s.i]
    IN
    /\ s.pc = "update"
    /\ \E outcome \in outcomes :
          IF outcome = "rejects"
          THEN /\ sweeps' = [sweeps EXCEPT ![p] = OnRecordFailure(s)]
               /\ UNCHANGED nodes
          ELSE /\ nodes' = update(nodes, memory.id, memory.content,
                                  [memory.metadata EXCEPT !.tier = "silent"])
               /\ sweeps' = [sweeps EXCEPT ![p] = OnUpgraded(
                     [s EXCEPT !.log[s.i].promoted = Promoted(nodes, nodes')])]
    /\ UNCHANGED <<scorerVars, now, made, cleanup>>

\* the caller has taken { upgraded, downgraded: 0 }
SweepReturn(p) ==
    /\ sweeps[p].pc = "done"
    /\ sweeps' = [sweeps EXCEPT ![p] = SweepIdle]
    /\ UNCHANGED <<scorerVars, now, nodes, made, cleanup>>

\* the scorer is the one constructed with the default configuration
InitStore ==
    /\ config = DEFAULT_SCORING_CONFIG
    /\ result = NoResult
    /\ call = Idle(config)
    /\ StoreIdle

(* SpecStore: store, forget, cleanup and two sweeps, interleaved at every  *)
(* await.                                                                  *)
SweepStep(p) ==
    \/ SweepList(p, Resolves)
    \/ SweepGetRelated(p, Resolves)
    \/ SweepUpdate(p, Resolves)
    \/ SweepReturn(p)

NextStore ==
    \/ Tick
    \/ Store
    \/ Forget
    \/ CleanupDelete
    \/ CleanupUpgrade
    \/ \E p \in Sweepers : SweepStep(p)

SpecStore == InitStore /\ [][NextStore]_vars

(* SpecSweep: the store is written, then one sweep runs over it, with      *)
(* calls to the database that may reject; nothing else writes meanwhile.   *)
FailingSweepStep ==
    \/ SweepList(1, MayReject)
    \/ SweepGetRelated(1, MayReject)
    \/ SweepUpdate(1, MayReject)
    \/ SweepReturn(1)

Quiet == sweeps[1].pc = "idle"

NextSweep ==
    \/ Quiet /\ Tick
    \/ Quiet /\ Store
    \/ FailingSweepStep

SpecSweep == InitStore /\ [][NextSweep]_vars

---------------------------------------------------------------------------
(* SpecTool: the store written only through the memory_store tool          *)
(* (src/unnamed/part_002), with sweeps and cleanup runs.                   *)

VALID_TIERS == {"explicit", "silent", "ephemeral", "all"}

\* normalizeTier(tier, defaultTier)
normalizeTier(tier, defaultTier) ==
    IF tier = Undefined \/ tier = "" THEN defaultTier
    ELSE IF ToLowerCase(tier) \in VALID_TIERS THEN ToLowerCase(tier)
    ELSE defaultTier

\* the tier memory_store stores under: 'all' is stored as silent
storageTier(tier) ==
    IF normalizeTier(tier, "silent") = "all" THEN "silent"
    ELSE normalizeTier(tier, "silent")

\* the tier parameter the agent gives to the tool
TierParams == {Undefined, "explicit", "Silent", "ephemeral", "all", "forever"}

\* the metadata memory_store passes to adapter.store: tier (score and source
\* are not kept in a node of this model), and never expiresAt
ToolMetadata == {[tier |-> storageTier(tier)] : tier \in TierParams}

\* memory_store.execute(toolCallId, {content, tier})
MemoryStore == StoreWith(ToolMetadata)

NextTool ==
    \/ Tick
    \/ MemoryStore
    \/ CleanupDelete
    \/ CleanupUpgrade
    \/ SweepStep(1)

SpecTool == InitStore /\ [][NextTool]_vars

---------------------------------------------------------------------------
(* Claims about the sweep, cleanup and the records of the store.           *)

\* the nodes that carry an id
WithId(ns, id) == {m \in ns : m.id = id}

\* the positions of a sweep's batch on which update() resolved
Upgrades(s) == {k \in 1..Len(s.log) : s.log[k].updated}

\* C7: in processReinforcements, for any batch of listed ephemeral records
\* and any subset of records on which getRelated or update fails, no
\* exception leaves the sweep and, when it returns, every record of the
\* batch has been processed: each record on which nothing failed and that
\* had a related record was updated and is silent, the records on which a
\* call failed were not counted, and `upgraded` counts the updated records.
C7_FailureIsolation ==
    \A p \in Sweepers :
        LET s == sweeps[p] IN
        /\ s.pc # "thrown"
        /\ s.pc = "done" =>
              /\ Len(s.log) = Len(s.batch)
              /\ \A k \in 1..Len(s.log) :
                    /\ (~s.log[k].failed /\ s.log[k].related)
                          => /\ s.log[k].updated
                             /\ \A m \in WithId(nodes, s.batch[k].id) :
                                   m.tier = "silent"
                    /\ s.log[k].failed => ~s.log[k].updated
              /\ s.upgraded = Cardinality(Upgrades(s))

\* a sweep over three records returned: update() rejected on the second,
\* and the first and the third were upgraded
C7_Witness ==
    LET s == sweeps[1] IN
    /\ s.pc = "done"
    /\ Len(s.batch) = 3
    /\ s.log[2].related /\ s.log[2].failed
    /\ s.log[1].updated /\ s.log[3].updated
    /\ s.upgraded = 2

\* the nodes a step removes from the database
Removed == {m \in nodes : \A x \in nodes' : x.node # m.node}

\* C8: the delete query of cleanup() deletes an ephemeral record only when
\* its expiresAt has passed and its reinforcementCount is below the
\* promotion threshold: a reinforced ephemeral record is left for the
\* upgrade query, also when its expiresAt has passed.
C8_ReinforcedSurvivesCleanup ==
    [][(cleanup.pc = "idle" /\ cleanup'.pc = "deleted")
        => \A m \in Removed :
              /\ Expired(m, now)
              /\ m.reinforcementCount < PromotionThreshold]_vars

Rank(tier) ==
    CASE tier = "ephemeral" -> 0
      [] tier = "silent" -> 1
      [] tier = "explicit" -> 2

\* C9: across any interleaving of store, forget, cleanup and two
\* processReinforcements sweeps, no step lowers the tier of a record that
\* exists before and after the step.
C9_TierNeverDrops ==
    [][\A m \in nodes : \A x \in nodes' :
          x.node = m.node => Rank(x.tier) >= Rank(m.tier)]_vars

\* C10: after any sequence of memory_store calls, sweeps and cleanup runs,
\* every record in the store has expiresAt set if and only if its tier is
\* silent or ephemeral.
C10_ExpiryIffNotExplicit ==
    \A m \in nodes : (m.expiresAt # None) <=> (m.tier \in {"silent", "ephemeral"})

---------------------------------------------------------------------------
(* SpecConstruct: the scorer from before its construction.  The constructor *)
(* is given any partial; when it throws there is no instance, and nothing   *)
(* can be called.                                                           *)

\* this.config when no instance exists
NoConfig == [f \in ConfigFields |-> Undefined]

InitConstruct ==
    /\ config = NoConfig
    /\ result = NoResult
    /\ call = [Idle(NoConfig) EXCEPT !.op = "unconstructed"]
    /\ StoreIdle

\* new MemoryScorer(adapter, partial)
Construct ==
    /\ call.op = "unconstructed"
    /\ \E p \in ConfigPartials :
          IF ConstructorThrows(p)
          THEN /\ call' = [Idle(NoConfig) EXCEPT !.op = "threw", !.partial = p]
               /\ result' = Thrown
               /\ UNCHANGED config
          ELSE /\ config' = Constructed(p)
               /\ call' = [Idle(NoConfig) EXCEPT !.op = "constructed",
                                                 !.partial = p]
               /\ result' = NoResult
    /\ UNCHANGED storeVars

NextConstruct == Construct \/ UpdateConfigDense \/ DetermineTier \/ Return

SpecConstruct == InitConstruct /\ [][NextConstruct]_vars

---------------------------------------------------------------------------
(* Claims about construction and updateConfig.                             *)

\* are the thresholds of a configuration in the wrong order?
InvalidPair(cfg) == cfg.ephemeralThreshold >= cfg.explicitThreshold

\* C11: constructing a MemoryScorer whose merged configuration (defaults
\* overlaid with the partial) has ephemeralThreshold >= explicitThreshold
\* throws within the constructor call and leaves no instance, a construction
\* with a valid pair does not throw, and every instance that exists has
\* ephemeralThreshold < explicitThreshold.
C11_InvalidConstructionThrows ==
    /\ call.op \in {"constructed", "threw"} =>
          (call.op = "threw"
              <=> InvalidPair(Merge(DEFAULT_SCORING_CONFIG, call.partial)))
    /\ call.op = "threw" => (config = NoConfig /\ result = Thrown)
    /\ call.op \notin {"unconstructed", "threw"} => ~InvalidPair(config)

\* the constructor was given equal thresholds and threw
C11_Witness ==
    /\ call.op = "threw"
    /\ {"ephemeralThreshold", "explicitThreshold"} \subseteq DOMAIN call.partial
    /\ call.partial.ephemeralThreshold = call.partial.explicitThreshold
    /\ config = NoConfig

Thresholds == {"ephemeralThreshold", "explicitThreshold"}

\* C12: an updateConfig call whose merged result would have
\* ephemeralThreshold >= explicitThreshold does not throw, leaves both
\* thresholds at their previous values and applies every other field of the
\* partial; a call whose merged thresholds are valid applies all fields.
C12_UpdateConfigFrame ==
    call.op = "updateConfig" =>
        LET merged == Merge(call.prev, call.partial) IN
        /\ result # Thrown
        /\ \A f \in ConfigFields \ Thresholds : config[f] = merged[f]
        /\ \A f \in Thresholds :
              config[f] = IF InvalidPair(merged) THEN call.prev[f]
                          ELSE merged[f]

\* an updateConfig call carried thresholds in the wrong order and a new
\* value of `enabled`, which was applied
C12_Witness ==
    /\ call.op = "updateConfig"
    /\ InvalidPair(Merge(call.prev, call.partial))
    /\ "enabled" \in DOMAIN call.partial
    /\ call.partial.enabled # call.prev.enabled
    /\ config.enabled = call.partial.enabled
    /\ config.explicitThreshold = call.prev.explicitThreshold

---------------------------------------------------------------------------
(* Claims about the short-circuits of scoreConversation.                   *)

\* is the conversation below one of the gating limits?
BelowLimits(cfg, segments) ==
    \/ TotalLength(segments) < cfg.minConversationLength
    \/ Len(segments) < cfg.minMessageCount

\* no request went to the external model and recall was not called
NothingAsked == call.response = NoResponse /\ ~call.recall.called

\* C13: with scoring enabled, when the total content length is below
\* minConversationLength or the segment count is below minMessageCount, and
\* no explicit marker is present, scoreConversation returns score 2, tier
\* ephemeral, recommendedAction store_ephemeral, and calls neither recall
\* nor the external model.
C13_GatingShortCircuit ==
    (/\ call.op = "scoreConversation"
     /\ ConfigRead.enabled
     /\ BelowLimits(ConfigRead, call.segments)
     /\ ~ContainsMarker[call.segments])
    => /\ result.score = 2
       /\ result.tier = "ephemeral"
       /\ result.recommendedAction = "store_ephemeral"
       /\ NothingAsked

\* a conversation long enough but with fewer segments than minMessageCount
\* was scored while an external model was configured
C13_Witness ==
    /\ call.op = "scoreConversation"
    /\ ConfigRead.enabled
    /\ TotalLength(call.segments) >= ConfigRead.minConversationLength
    /\ Len(call.segments) < ConfigRead.minMessageCount
    /\ ~ContainsMarker[call.segments]
    /\ ConfigRead.scoringModel = "llamacpp"
    /\ result.score = 2

\* C14: with enabled = false, scoreConversation returns for any input, also
\* one with an explicit marker or below the gating limits, tier =
\* defaultTier, score 9 / 6 / 3 for explicit / silent / ephemeral and the
\* store action of that tier, and calls neither recall nor the external
\* model.
C14_DisabledShortCircuit ==
    (call.op = "scoreConversation" /\ ~ConfigRead.enabled)
    => /\ result.tier = config.defaultTier
       /\ result.score = (CASE config.defaultTier = "explicit" -> 9
                            [] config.defaultTier = "silent" -> 6
                            [] config.defaultTier = "ephemeral" -> 3)
       /\ result.recommendedAction =
             (CASE config.defaultTier = "explicit" -> "store_explicit"
                [] config.defaultTier = "silent" -> "store_silent"
                [] config.defaultTier = "ephemeral" -> "store_ephemeral")
       /\ NothingAsked

\* a conversation with an explicit marker was scored by a disabled scorer
\* whose defaultTier is ephemeral and that has an external model configured
C14_Witness ==
    /\ call.op = "scoreConversation"
    /\ ~ConfigRead.enabled
    /\ config.defaultTier = "ephemeral"
    /\ ConfigRead.scoringModel = "llamacpp"
    /\ ContainsMarker[call.segments]
    /\ result.recommendedAction = "store_ephemeral"

\* C15: in every ScoringResult returned by scoreConversation, expiresInHours
\* equals defaultEphemeralHours when tier is ephemeral, defaultSilentDays *
\* 24 when tier is silent, and is absent when tier is explicit.
C15_ExpiryFollowsTier ==
    call.op = "scoreConversation" =>
        result.expiresInHours =
            (CASE result.tier = "ephemeral" -> Some(config.defaultEphemeralHours)
               [] result.tier = "silent" -> Some(config.defaultSilentDays * 24)
               [] result.tier = "explicit" -> None)

\* the threshold pairs the configuration documents: ephemeralThreshold in
\* 0..9, explicitThreshold in 1..10
InDocumentedRange(cfg) ==
    /\ cfg.ephemeralThreshold \in 0..(MaxScore - 1)
    /\ cfg.explicitThreshold \in 1..MaxScore

\* C16 as stated: for every threshold pair in the documented range, score
\* 10 is classified explicit, score 0 ephemeral, and every score in
\* [ephemeralThreshold, explicitThreshold) silent.
C16_Original ==
    (call.op = "determineTier" /\ InDocumentedRange(config))
    => /\ result.score = MaxScore => result.tier = "explicit"
       /\ result.score = 0 => result.tier = "ephemeral"
       /\ (/\ config.ephemeralThreshold <= result.score
           /\ result.score < config.explicitThreshold)
          => result.tier = "silent"

\* C16, amended: for every threshold pair in the documented range, score 10
\* is classified explicit, every score in [ephemeralThreshold,
\* explicitThreshold) silent, and score 0 ephemeral when ephemeralThreshold
\* is at least 1; with ephemeralThreshold = 0 score 0 is silent.
C16_TierAtTheEnds ==
    (call.op = "determineTier" /\ InDocumentedRange(config))
    => /\ result.score = MaxScore => result.tier = "explicit"
       /\ result.score = 0 =>
             result.tier = IF config.ephemeralThreshold >= 1
                           THEN "ephemeral" ELSE "silent"
       /\ (/\ config.ephemeralThreshold <= result.score
           /\ result.score < config.explicitThreshold)
          => result.tier = "silent"

\* score 0 was classified under ephemeralThreshold = 0
C16_Witness ==
    /\ call.op = "determineTier"
    /\ InDocumentedRange(config)
    /\ config.ephemeralThreshold = 0
    /\ result.score = 0
    /\ result.tier = "silent"

---------------------------------------------------------------------------
(* Claims about the heuristic path and the external model's answers.       *)

\* a scoring call took the heuristic path under the default thresholds and
\* the text holds an explicit marker
MarkerOnHeuristicPath ==
    /\ call.op = "scoreConversation"
    /\ call.path = "heuristic"
    /\ config.explicitThreshold = DEFAULT_SCORING_CONFIG.explicitThreshold
    /\ config.ephemeralThreshold = DEFAULT_SCORING_CONFIG.ephemeralThreshold
    /\ ContainsMarker[call.segments]

\* C17 as stated: on the heuristic path with default thresholds, a
\* conversation in which the explicit-emphasis marker fires gets tier =
\* explicit and recommendedAction = store_explicit, whatever the other six
\* factors are.
C17_Original ==
    MarkerOnHeuristicPath
    => /\ result.tier = "explicit"
       /\ result.recommendedAction = "store_explicit"

\* C17, amended: on the heuristic path with default thresholds, a
\* conversation in which the explicit-emphasis marker fires gets
\* recommendedAction = store_explicit whatever the other six factors are,
\* and tier = explicit exactly when its weighted score reaches
\* explicitThreshold.
C17_MarkerForcesAction ==
    MarkerOnHeuristicPath
    => /\ result.recommendedAction = "store_explicit"
       /\ result.tier = "explicit" <=> result.score >= config.explicitThreshold

\* a conversation with a marker was scored silent with action
\* store_explicit, recall having found two results
C17_Witness ==
    /\ MarkerOnHeuristicPath
    /\ Len(call.recall.results) = 2
    /\ result.tier = "silent"
    /\ result.recommendedAction = "store_explicit"

\* the factors the heuristic path computed in the last scoring call
FactorsOfCall ==
    HeuristicFactors(call.segments, TextOf[call.segments],
                     RecallResults(TextOf[call.segments], call.recall))

\* the factors with the three recall-based ones at the fallback value 3
WithRecallFallback(factors) ==
    [factors EXCEPT !.repetition = 3, !.context_anchoring = 3, !.novelty = 3]

\* C18: when the recall call fails during heuristic scoring (the text has
\* the 20 characters that make the engine call recall), repetition,
\* context_anchoring and novelty each take the fallback value 3 in the
\* weighted score, and scoring proceeds.
C18_RecallFallbackIsThree ==
    (/\ call.op = "scoreConversation"
     /\ call.path = "heuristic"
     /\ RecallNeeded(TextOf[call.segments])
     /\ call.recall.rejects)
    => /\ FactorsOfCall = WithRecallFallback(FactorsOfCall)
       /\ result.score = calculateWeightedScore(WithRecallFallback(FactorsOfCall))

\* the external model was asked and answered with a JSON object
ModelAnswered ==
    /\ call.op = "scoreConversation"
    /\ ConfigRead.enabled
    /\ ModelConfigured(ConfigRead)
    /\ call.response.kind = "json_object"

\* what the heuristic pipeline returns for the last call's input
HeuristicOfCall ==
    HeuristicResult(config, call.segments, TextOf[call.segments], call.recall)

\* C19: when the external model answers with a parsable JSON object from
\* which score or reasoning is missing, the external result is abandoned
\* and scoreConversation returns the heuristic pipeline's result.
C19_MissingFieldFallsBack ==
    (/\ ModelAnswered
     /\ \/ call.response.score = None
        \/ call.response.reasoning = None)
    => /\ call.path = "heuristic"
       /\ result = HeuristicOfCall

\* C20: when the external model returns a well-formed response with an
\* integer score s in 0..10, the ScoringResult has score = s and the tier
\* the threshold rule assigns to s under the live thresholds, whatever tier
\* label the model returned, for every s in 0..10, 0 included.
C20_ModelScoreIsKept ==
    (/\ ModelAnswered
     /\ call.response.reasoning # None
     /\ call.response.tier # None
     /\ \E n \in Scores : call.response.score = Some(n))
    => \A n \in call.response.score :
          /\ result.score = n
          /\ result.tier = ThresholdRule(config, n)

---------------------------------------------------------------------------
(* SpecCleanup: MemoryScorer.cleanupExpiredMemories over the adapter's     *)
(* cleanup(), whose two queries may each reject.  `cleanup` follows the    *)
(* adapter's call, `call` and `result` the scorer's.                       *)

\* { deleted: 0, upgraded: 0 }
ZeroCounts == [deleted |-> 0, upgraded |-> 0]

\* adapter.cleanup() has been called `calls` times by the running
\* cleanupExpiredMemories and is at pc
CleanupAt(pc, calls, answer) ==
    [pc |-> pc, deleted |-> answer.deleted, calls |-> calls,
     answer |-> answer]

\* cleanupExpiredMemories' catch block handing on what had been counted
\* before the failure
OnCleanupFailure_Partial(answer) == answer

\* catch (err) { ...; return { deleted: 0, upgraded: 0 }; }
OnCleanupFailure(answer) == ZeroCounts

\* await scorer.cleanupExpiredMemories(): the call is made and
\* adapter.cleanup() is entered
CleanupExpiredMemories ==
    /\ call.op = "idle"
    /\ cleanup.pc = "idle"
    /\ call' = [Idle(config) EXCEPT !.op = "cleanupExpiredMemories",
                                    !.path = "running"]
    /\ cleanup' = CleanupAt("called", 1, ZeroCounts)
    /\ result' = NoResult
    /\ UNCHANGED <<config, now, nodes, made, sweeps>>

\* adapter.cleanup(): session.run(deleteCypher, { now }) resolved or rejected
CleanupDeleteQuery(outcomes) ==
    /\ cleanup.pc = "called"
    /\ \E outcome \in outcomes :
          IF outcome = "rejects"
          THEN /\ cleanup' = [cleanup EXCEPT !.pc = "rejected"]
               /\ UNCHANGED nodes
          ELSE /\ nodes' = cleanupDelete(nodes, now)
               /\ cleanup' = CleanupAt("deleted", cleanup.calls,
                     [ZeroCounts EXCEPT !.deleted =
                        Cardinality(nodes) - Cardinality(nodes')])
    /\ UNCHANGED <<scorerVars, now, made, sweeps>>

\* adapter.cleanup(): session.run(upgradeCypher) resolved or rejected
CleanupUpgradeQuery(outcomes) ==
    /\ cleanup.pc = "deleted"
    /\ \E outcome \in outcomes :
          IF outcome = "rejects"
          THEN /\ cleanup' = [cleanup EXCEPT !.pc = "rejected"]
               /\ UNCHANGED nodes
          ELSE /\ nodes' = cleanupUpgrade(nodes)
               /\ cleanup' = CleanupAt("resolved", cleanup.calls,
                     [cleanup.answer EXCEPT !.upgraded =
                        Cardinality({m \in nodes : Reinforced(m)})])
    /\ UNCHANGED <<scorerVars, now, made, sweeps>>

\* cleanupExpiredMemories returns: the adapter's result, or the catch
\* block's
CleanupExpiredReturn ==
    /\ call.op = "cleanupExpiredMemories"
    /\ call.path = "running"
    /\ cleanup.pc \in {"resolved", "rejected"}
    /\ result' = IF cleanup.pc = "resolved" THEN cleanup.answer
                 ELSE OnCleanupFailure(cleanup.answer)
    /\ call' = [call EXCEPT !.path = cleanup.pc]
    /\ UNCHANGED <<config, storeVars>>

\* the host has taken the counts
CleanupTaken ==
    /\ call.op = "cleanupExpiredMemories"
    /\ call.path \in {"resolved", "rejected"}
    /\ call' = Idle(config)
    /\ result' = NoResult
    /\ cleanup' = CleanupIdle
    /\ UNCHANGED <<config, now, nodes, made, sweeps>>

NextCleanup ==
    \/ call.op = "idle" /\ Tick
    \/ call.op = "idle" /\ Store
    \/ CleanupExpiredMemories
    \/ CleanupDeleteQuery(MayReject)
    \/ CleanupUpgradeQuery(MayReject)
    \/ CleanupExpiredReturn
    \/ CleanupTaken

SpecCleanup == InitStore /\ [][NextCleanup]_vars

\* cleanupExpiredMemories has returned
CleanupReturned ==
    /\ call.op = "cleanupExpiredMemories"
    /\ call.path \in {"resolved", "rejected"}

\* C21: cleanupExpiredMemories returns exactly the {deleted, upgraded} pair
\* the adapter's cleanup() returned, having called cleanup() once; when
\* cleanup() rejects it returns {deleted: 0, upgraded: 0} and does not
\* throw.
C21_CleanupVerbatim ==
    CleanupReturned
    => /\ cleanup.calls = 1
       /\ call.path = "resolved" => result = cleanup.answer
       /\ call.path = "rejected" => result = ZeroCounts

\* cleanup() rejected at its second query, after the first had deleted a
\* record, and cleanupExpiredMemories returned the zero counts
C21_Witness ==
    /\ CleanupReturned
    /\ call.path = "rejected"
    /\ cleanup.answer.deleted > 0
    /\ result = ZeroCounts

---------------------------------------------------------------------------
(* The Graphiti store (src/unnamed/part_005).  An episode is a record of   *)
(* the same shape as a Memory node; its id is the uuid the server gives    *)
(* it, modelled as the number of the episode.  The metadata travels in the *)
(* episode body, and list() reads reinforcementCount as 0.                 *)

\* GraphitiMCPAdapter.store: add_memory with the enriched content
graphitiStore(ns, uuid, t, content, metadata) ==
    ns \cup {[node |-> uuid,
              id |-> uuid,
              content |-> content,
              tier |-> FieldOr(metadata, "tier", "silent"),
              createdAt |-> t,
              expiresAt |-> IF "expiresAt" \in DOMAIN metadata
                            THEN Some(metadata.expiresAt) ELSE None,
              reinforcementCount |-> 0]}

\* GraphitiMCPAdapter.forget: delete_episode {uuid: id}
graphitiForget(ns, id) == {m \in ns : m.id # id}

\* the adapters a MemoryScorer is given
Backends == {"neo4j", "graphiti"}

---------------------------------------------------------------------------
(* SpecUpdate: records are stored through one adapter, then the update     *)
(* that promotes a record is applied once and once more.  The Neo4j        *)
(* update is one query; the Graphiti update is two awaited calls, and      *)
(* between them the record is gone from the store (op = "updating").       *)
(* `call` holds the adapter, the update's arguments, how many times it     *)
(* has been applied, the store as the first application left it and        *)
(* whether an application rejected.                                        *)

UpdateIdle(backend) ==
    [op |-> "idle", backend |-> backend, id |-> 0, content |-> "",
     metadata |-> EmptyPartial, times |-> 0, once |-> {}, threw |-> FALSE]

InitUpdate ==
    /\ config = DEFAULT_SCORING_CONFIG
    /\ result = NoResult
    /\ \E backend \in Backends : call = UpdateIdle(backend)
    /\ StoreIdle

\* await adapter.store(content, metadata) on the Graphiti adapter
GraphitiStore ==
    /\ made < MaxStores
    /\ \E content \in Contents, md \in StoreMetadata(now) :
          nodes' = graphitiStore(nodes, made + 1, now, content, md)
    /\ made' = made + 1
    /\ UNCHANGED <<scorerVars, now, cleanup, sweeps>>

AdapterStore ==
    /\ call.op = "idle"
    /\ \/ call.backend = "neo4j" /\ Store
       \/ call.backend = "graphiti" /\ GraphitiStore

\* the arguments of the update that promotes record m:
\* update(memory.id, memory.content, {...memory.metadata, tier: 'silent'})
PromotionOf(m) ==
    [id |-> m.id, content |-> m.content,
     metadata |-> [MemoryResult(m).metadata EXCEPT !.tier = "silent"]]

\* the arguments of the application that begins: those that promote a
\* stored record the first time, the same ones the second time
UpdateArguments ==
    IF call.times = 0 THEN {PromotionOf(m) : m \in nodes}
    ELSE {[id |-> call.id, content |-> call.content,
           metadata |-> call.metadata]}

\* update() has resolved or rejected: one more application is over
Applied(c, rejected) ==
    [c EXCEPT !.op = "update",
              !.times = @ + 1,
              !.once = IF c.times = 0 THEN nodes' ELSE @,
              !.threw = @ \/ rejected]

\* await adapter.update(id, content, metadata) on the Neo4j adapter: one
\* query, which the database runs or fails
Neo4jUpdate ==
    /\ call.backend = "neo4j"
    /\ call.op = "idle"
    /\ call.times < 2
    /\ \E args \in UpdateArguments, outcome \in MayReject :
          /\ nodes' = IF outcome = "rejects" THEN nodes
                      ELSE update(nodes, args.id, args.content, args.metadata)
          /\ call' = Applied([call EXCEPT !.id = args.id,
                                          !.content = args.content,
                                          !.metadata = args.metadata],
                             outcome = "rejects")
    /\ UNCHANGED <<config, result, now, made, cleanup, sweeps>>

\* GraphitiMCPAdapter.update, first await: this.forget(id) has resolved
\* (delete_episode was delivered) or rejected, and then update() rejects
GraphitiUpdateForget ==
    /\ call.backend = "graphiti"
    /\ call.op = "idle"
    /\ call.times < 2
    /\ \E args \in UpdateArguments, outcome \in MayReject :
          LET c == [call EXCEPT !.id = args.id,
                                !.content = args.content,
                                !.metadata = args.metadata]
          IN  IF outcome = "rejects"
              THEN /\ UNCHANGED nodes
                   /\ call' = Applied(c, TRUE)
              ELSE /\ nodes' = graphitiForget(nodes, args.id)
                   /\ call' = [c EXCEPT !.op = "updating"]
    /\ UNCHANGED <<config, result, now, made, cleanup, sweeps>>

\* GraphitiMCPAdapter.update, second await: this.store(content, metadata)
\* has resolved (add_memory was delivered) or rejected
GraphitiUpdateStore ==
    /\ call.op = "updating"
    /\ \E outcome \in MayReject :
          IF outcome = "rejects"
          THEN /\ UNCHANGED <<nodes, made>>
               /\ call' = Applied(call, TRUE)
          ELSE /\ nodes' = graphitiStore(nodes, made + 1, now, call.content,
                                         call.metadata)
               /\ made' = made + 1
               /\ call' = Applied(call, FALSE)
    /\ UNCHANGED <<config, result, now, cleanup, sweeps>>

\* the caller goes on to the second application, or is done
UpdateDone ==
    /\ call.op = "update"
    /\ call.times < 2
    /\ call' = [call EXCEPT !.op = "idle"]
    /\ UNCHANGED <<config, result, storeVars>>

NextUpdate ==
    \/ call.times = 0 /\ call.op = "idle" /\ Tick
    \/ call.op = "updating" /\ Tick
    \/ call.times = 0 /\ AdapterStore
    \/ Neo4jUpdate
    \/ GraphitiUpdateForget
    \/ GraphitiUpdateStore
    \/ UpdateDone

SpecUpdate == InitUpdate /\ [][NextUpdate]_vars

\* the ids of the records of a store
Ids(ns) == {m.id : m \in ns}

\* C22: the adapters' update() is idempotent for promotion: applying the
\* same update (same id, content and tier silent) twice, on a store that
\* answers every call, leaves the store as applying it once left it - the
\* same set of record ids, as many records.
C22_UpdateIdempotent ==
    (call.op = "update" /\ call.times = 2 /\ ~call.threw)
    => /\ Ids(nodes) = Ids(call.once)
       /\ Cardinality(nodes) = Cardinality(call.once)

---------------------------------------------------------------------------
(* SpecResweep: processReinforcements run twice over a Neo4j store that    *)
(* nothing else touches and whose calls all resolve.  The store is one     *)
(* that store() calls have built: a record per millisecond, all ephemeral, *)
(* the oldest with a content of its own choice and the others with         *)
(* "dark mode".  `call` counts the finished runs and keeps the store as    *)
(* the first run left it and the count the last run returned.              *)

\* the most records a prepared store holds
MaxPrepared == 52

\* how many records the prepared stores hold: a few, and around the
\* sweep's batch limit
PreparedSizes ==
    {n \in 0..MaxPrepared : n <= 3 \/ n >= ListLimit}

\* the store after n store() calls, one per millisecond from 1 on
RECURSIVE Prepared(_, _)
Prepared(n, oldest) ==
    IF n = 0 THEN {}
    ELSE store(Prepared(n - 1, oldest), n, n,
               IF n = 1 THEN oldest ELSE "dark mode",
               [tier |-> "ephemeral", expiresAt |-> n + ExpiryDelay])

ResweepIdle == [op |-> "idle", runs |-> 0, first |-> {}, upgraded |-> 0]

InitResweep ==
    /\ config = DEFAULT_SCORING_CONFIG
    /\ result = NoResult
    /\ call = ResweepIdle
    /\ \E n \in PreparedSizes, oldest \in Contents :
          /\ nodes = Prepared(n, oldest)
          /\ made = n
          /\ now = n
    /\ cleanup = CleanupIdle
    /\ sweeps = [p \in Sweepers |-> SweepIdle]

\* await scorer.processReinforcements(), at most twice
ResweepList ==
    /\ call.runs < 2
    /\ SweepList(1, Resolves)

\* processReinforcements has returned { upgraded, downgraded: 0 }
ResweepReturn ==
    /\ sweeps[1].pc = "done"
    /\ call' = [op |-> "processReinforcements",
                runs |-> call.runs + 1,
                first |-> IF call.runs = 0 THEN nodes ELSE call.first,
                upgraded |-> sweeps[1].upgraded]
    /\ sweeps' = [sweeps EXCEPT ![1] = SweepIdle]
    /\ UNCHANGED <<config, result, now, nodes, made, cleanup>>

NextResweep ==
    \/ ResweepList
    \/ SweepGetRelated(1, Resolves)
    \/ SweepUpdate(1, Resolves)
    \/ ResweepReturn

SpecResweep == InitResweep /\ [][NextResweep]_vars

\* C23: processReinforcements is idempotent: with no other operation in
\* between, a second run of the sweep promotes no further record and leaves
\* the store exactly as the first run left it, for any number of ephemeral
\* records in the store, also more than the batch limit of 50.
C23_SweepIdempotent ==
    call.runs = 2 => /\ call.upgraded = 0
                     /\ nodes = call.first

---------------------------------------------------------------------------
(* SpecConcurrent: scoreConversation calls suspended at an await while     *)
(* updateConfig runs.  The configuration objects live in a heap:           *)
(* call.objects is the sequence of the objects allocated so far, call.this *)
(* the one this.config refers to, and `config` its value.  updateConfig is *)
(* synchronous, so it is one step; a scoring call reads this.config when   *)
(* it begins and, after its awaits, in determineTier.                      *)

\* how many updateConfig calls are made
MaxUpdates == 2

\* the scoreConversation calls that may be in progress together
Readers == {1, 2}

\* the partial configurations given to updateConfig while calls are suspended
ConcurrentThresholds == {2, 4, 8}
ConcurrentPartials ==
    ThresholdPartials(ConcurrentThresholds) \cup OptField("enabled", BOOLEAN)

\* the scores the suspended calls come back with
ConcurrentScores == {0, 4, 8, 10}

\* (ephemeralThreshold, explicitThreshold) of a configuration object
ThresholdPair(cfg) == <<cfg.ephemeralThreshold, cfg.explicitThreshold>>

ReaderIdle ==
    [pc |-> "idle", began |-> 0, ref |-> 0, seen |-> NoConfig,
     score |-> 0 - 1, tier |-> "none", pair |-> <<>>]

\* this.config = merged, with merged written over the object this.config
\* refers to
Publish_InPlace(c, merged) ==
    [c EXCEPT !.objects[c.this] = merged,
              !.installed = @ \cup {ThresholdPair(merged)}]

\* this.config = merged: merged is a new object ({ ...this.config,
\* ...partial }) and this.config is made to refer to it
Publish(c, merged) ==
    [c EXCEPT !.objects = Append(@, merged),
              !.this = Len(c.objects) + 1,
              !.installed = @ \cup {ThresholdPair(merged)}]

\* new MemoryScorer(adapter, partial) that did not throw; no call is running
InitConcurrent ==
    /\ \E p \in ConcurrentPartials :
          /\ ~ConstructorThrows(p)
          /\ config = Constructed(p)
    /\ result = NoResult
    /\ call = [objects |-> <<config>>, this |-> 1,
               installed |-> {ThresholdPair(config)},
               updates |-> 0,
               readers |-> [r \in Readers |-> ReaderIdle]]
    /\ StoreIdle

\* scorer.updateConfig(partial), from start to end
ConcurrentUpdateConfig ==
    /\ call.updates < MaxUpdates
    /\ \E p \in ConcurrentPartials :
          LET merged == updateConfig(config, p)
              c == Publish(call, merged)
          IN  /\ call' = [c EXCEPT !.updates = @ + 1]
              /\ config' = c.objects[c.this]
    /\ UNCHANGED <<result, storeVars>>

\* the conversations scored: one below the gating limits, one above them
ConcurrentConversations ==
    {<<Seg("user", "hi there")>>,
     <<Seg("user", "the project meeting is next week in the main office")>>}

\* scoreConversation(segments) begins: it reads this.config.enabled and the
\* gating limits; the disabled and the gated call return at once, without
\* reading a threshold, and the others are suspended at an await
BeginScore(r) ==
    /\ call.readers[r].pc = "idle"
    /\ \E segments \in ConcurrentConversations :
         LET text == TextOf[segments]
             path == ScorePath(config, segments, text, NoResponse)
             atOnce == scoreConversation(config, segments, text,
                                         NoResponse, NoRecall)
             began == [ReaderIdle EXCEPT !.began = call.this,
                                         !.ref = call.this,
                                         !.seen = config]
         IN  call' = [call EXCEPT !.readers[r] =
                        IF path \in {"disabled", "trivial"}
                        THEN [began EXCEPT !.pc = "returned",
                                           !.score = atOnce.score,
                                           !.tier = atOnce.tier]
                        ELSE [began EXCEPT !.pc = "awaiting"]]
    /\ UNCHANGED <<config, result, storeVars>>

\* the await is over: determineTier(score) reads this.config's thresholds
ResumeScore(r) ==
    /\ call.readers[r].pc = "awaiting"
    /\ \E score \in ConcurrentScores :
          call' = [call EXCEPT !.readers[r] =
                     [@ EXCEPT !.pc = "returned",
                               !.ref = call.this,
                               !.seen = config,
                               !.score = score,
                               !.tier = determineTier(config, score),
                               !.pair = ThresholdPair(config)]]
    /\ UNCHANGED <<config, result, storeVars>>

\* the caller has the ScoringResult
ReturnScore(r) ==
    /\ call.readers[r].pc = "returned"
    /\ call' = [call EXCEPT !.readers[r] = ReaderIdle]
    /\ UNCHANGED <<config, result, storeVars>>

NextConcurrent ==
    \/ ConcurrentUpdateConfig
    \/ \E r \in Readers : BeginScore(r) \/ ResumeScore(r) \/ ReturnScore(r)

SpecConcurrent == InitConcurrent /\ [][NextConcurrent]_vars

\* the tier the threshold rule gives a score under a pair of thresholds
TierUnderPair(pair, score) ==
    IF score >= pair[2] THEN "explicit"
    ELSE IF score >= pair[1] THEN "silent"
    ELSE "ephemeral"

\* C24: when updateConfig runs while scoreConversation calls are suspended
\* at an await, no scoring call reads a half-updated threshold pair: the
\* pair a call reads was installed together by the constructor or by one
\* updateConfig call, and the configuration object a call has read is never
\* mutated in place.
C24_NoHalfUpdatedPair ==
    \A r \in Readers :
       LET reader == call.readers[r]
       IN  /\ (reader.pc = "returned" /\ reader.pair # <<>>)
              => /\ reader.pair \in call.installed
                 /\ reader.pair[1] < reader.pair[2]
                 /\ reader.tier = TierUnderPair(reader.pair, reader.score)
           /\ reader.pc # "idle" => call.objects[reader.ref] = reader.seen

\* a call read its thresholds from an object installed while it was
\* suspended, with other thresholds than the object it began with, and
\* another call is still suspended on the earlier object
C24_Witness ==
    \E r, s \in Readers :
       /\ call.readers[r].pc = "returned"
       /\ call.readers[r].began < call.readers[r].ref
       /\ call.readers[r].pair
             # ThresholdPair(call.objects[call.readers[r].began])
       /\ call.readers[s].pc = "awaiting"
       /\ call.readers[s].ref < call.this

---------------------------------------------------------------------------
(* SpecHeartbeat: the heartbeat hook (src/src/hooks.ts) over a Neo4j       *)
(* store.  `call` follows the handler: the scoringConfig registerHooks     *)
(* built, how many times the maintenance has been started, when the last   *)
(* two starts were, and where the running handler is.  A heartbeat arrives *)
(* when the previous handler has finished.                                 *)

\* milliseconds in an hour
MsPerHour == 3600000

\* how many hours the clock runs
MaxHours == 2

\* how many times the maintenance is started
MaxHeartbeats == 2

\* config.scoringCleanupHours, where the plugin configuration gives it
CleanupHours == {None, Some(1)}

\* config.scoringEnabled, where the plugin configuration gives it
ScoringEnabled == {None, Some(TRUE), Some(FALSE)}

\* registerHooks' scoringConfig: enabled (config.scoringEnabled !== false)
\* and cleanupIntervalHours (config.scoringCleanupHours || the default);
\* its other fields are the defaults when the plugin options are unset
HookConfig(scoringEnabled, scoringCleanupHours) ==
    [enabled |-> scoringEnabled # Some(FALSE),
     cleanupIntervalHours |->
        IF scoringCleanupHours \in {None, Some(0)}
        THEN DEFAULT_CLEANUP_INTERVAL_HOURS
        ELSE CHOOSE hours \in scoringCleanupHours : TRUE]

HeartbeatIdle(scoringConfig) ==
    [op |-> "heartbeat", pc |-> "idle", scoringConfig |-> scoringConfig,
     runs |-> 0, started |-> None, previous |-> None]

\* registerHooks: createMemoryScorer(client, scoringConfig)
InitHeartbeat ==
    /\ result = NoResult
    /\ \E scoringEnabled \in ScoringEnabled,
          scoringCleanupHours \in CleanupHours :
          LET scoringConfig == HookConfig(scoringEnabled, scoringCleanupHours)
          IN  /\ config = Constructed(scoringConfig)
              /\ call = HeartbeatIdle(scoringConfig)
    /\ StoreIdle

\* an hour passes
HourPasses ==
    /\ call.pc = "idle"
    /\ now < MaxHours * MsPerHour
    /\ now' = now + MsPerHour
    /\ UNCHANGED <<scorerVars, nodes, made, cleanup, sweeps>>

\* if (!scoringConfig.enabled) return; and the maintenance follows
HeartbeatStarts(c, t) == c.scoringConfig.enabled

\* api.on('heartbeat', ...): an event arrives and the handler returns at
\* once or calls scorer.cleanupExpiredMemories()
Heartbeat ==
    /\ call.pc = "idle"
    /\ cleanup.pc = "idle"
    /\ call.runs < MaxHeartbeats
    /\ IF HeartbeatStarts(call, now)
       THEN /\ call' = [call EXCEPT !.pc = "cleanup",
                                    !.runs = @ + 1,
                                    !.started = Some(now),
                                    !.previous = call.started]
            /\ cleanup' = CleanupAt("called", 1, ZeroCounts)
       ELSE /\ call' = [call EXCEPT !.pc = "skipped"]
            /\ UNCHANGED cleanup
    /\ UNCHANGED <<config, result, now, nodes, made, sweeps>>

\* cleanupExpiredMemories() has returned and the handler calls
\* scorer.processReinforcements()
HeartbeatSweeps ==
    /\ call.pc = "cleanup"
    /\ cleanup.pc \in {"resolved", "rejected"}
    /\ call' = [call EXCEPT !.pc = "sweep"]
    /\ cleanup' = CleanupIdle
    /\ UNCHANGED <<config, result, now, nodes, made, sweeps>>

\* the handler returns
HeartbeatReturns ==
    /\ \/ call.pc = "skipped" /\ UNCHANGED sweeps
       \/ /\ call.pc = "sweep"
          /\ sweeps[1].pc = "done"
          /\ sweeps' = [sweeps EXCEPT ![1] = SweepIdle]
    /\ call' = [call EXCEPT !.pc = "idle"]
    /\ UNCHANGED <<config, result, now, nodes, made, cleanup>>

NextHeartbeat ==
    \/ HourPasses
    \/ call.pc = "idle" /\ Store
    \/ Heartbeat
    \/ CleanupDeleteQuery(Resolves)
    \/ CleanupUpgradeQuery(Resolves)
    \/ HeartbeatSweeps
    \/ call.pc = "sweep" /\ SweepList(1, Resolves)
    \/ SweepGetRelated(1, Resolves)
    \/ SweepUpdate(1, Resolves)
    \/ HeartbeatReturns

SpecHeartbeat == InitHeartbeat /\ [][NextHeartbeat]_vars

\* C25: heartbeat maintenance is throttled by cleanupIntervalHours: after a
\* heartbeat has run cleanupExpiredMemories and processReinforcements, a
\* heartbeat that arrives before cleanupIntervalHours have elapsed triggers
\* neither of them; with scoring disabled no heartbeat triggers them.
C25_HeartbeatThrottled ==
    /\ ~call.scoringConfig.enabled => call.runs = 0
    /\ \A started \in call.started, previous \in call.previous :
          started - previous
             >= call.scoringConfig.cleanupIntervalHours * MsPerHour

---------------------------------------------------------------------------
(* SpecGraphitiSweep: processReinforcements over the Graphiti adapter,     *)
(* whose update() is a forget() followed by a store(), each a call to the  *)
(* server that may fail.  What search_facts finds for a record's id is the *)
(* server's matter: getRelated returns something or nothing.  Before a     *)
(* sweep the adapter's cleanup() may run: one list(100) and one awaited    *)
(* forget() for each expired ephemeral episode.                            *)

\* GraphitiMCPAdapter.list(limit, tier): get_episodes with the limit, then
\* the filter on the tier
graphitiList(ns, limit, tier) ==
    LET HasTier(r) == r.metadata.tier = tier
    IN  {SelectSeq([i \in 1..Min(Len(rows), limit) |-> MemoryResult(rows[i])],
                   HasTier) : rows \in Ordered(ns)}

\* what a call to the server does: it fails, or it answers with nothing or
\* with something
SearchOutcomes == {"rejects", "nothing", "something"}

InitGraphitiSweep ==
    /\ config = DEFAULT_SCORING_CONFIG
    /\ result = NoResult
    /\ call = UpdateIdle("graphiti")
    /\ StoreIdle

\* processReinforcements(): adapter.list(50, 'ephemeral') has resolved or
\* rejected
GraphitiSweepList ==
    /\ sweeps[1].pc = "idle"
    /\ \E outcome \in MayReject :
          IF outcome = "rejects"
          THEN sweeps' = [sweeps EXCEPT ![1] = Listed(<<>>)]
          ELSE \E batch \in graphitiList(nodes, ListLimit, "ephemeral") :
                  sweeps' = [sweeps EXCEPT ![1] = Listed(batch)]
    /\ UNCHANGED <<scorerVars, now, nodes, made, cleanup>>

\* processReinforcements(): adapter.getRelated(memory.id, 1) has resolved
\* or rejected
GraphitiSweepGetRelated ==
    /\ sweeps[1].pc = "getRelated"
    /\ \E outcome \in SearchOutcomes :
          LET entry == [related |-> outcome = "something", failed |-> FALSE,
                        updated |-> FALSE, promoted |-> 0]
              s == [sweeps[1] EXCEPT !.log = Append(@, entry)]
          IN  sweeps' = [sweeps EXCEPT ![1] =
                 IF outcome = "rejects" THEN OnRecordFailure(s)
                 ELSE IF outcome = "something" THEN [s EXCEPT !.pc = "update"]
                 ELSE NextRecord(s)]
    /\ UNCHANGED <<scorerVars, now, nodes, made, cleanup>>

\* adapter.update(): await this.forget(id) has resolved or rejected
GraphitiSweepForget ==
    /\ sweeps[1].pc = "update"
    /\ \E outcome \in MayReject :
          IF outcome = "rejects"
          THEN /\ sweeps' = [sweeps EXCEPT ![1] = OnRecordFailure(sweeps[1])]
               /\ UNCHANGED nodes
          ELSE /\ nodes' = graphitiForget(nodes,
                              sweeps[1].batch[sweeps[1].i].id)
               /\ sweeps' = [sweeps EXCEPT ![1].pc = "store"]
    /\ UNCHANGED <<scorerVars, now, made, cleanup>>

\* adapter.update(): await this.store(content, metadata) has resolved or
\* rejected
GraphitiSweepStore ==
    /\ sweeps[1].pc = "store"
    /\ \E outcome \in MayReject :
          IF outcome = "rejects"
          THEN /\ sweeps' = [sweeps EXCEPT ![1] = OnRecordFailure(sweeps[1])]
               /\ UNCHANGED <<nodes, made>>
          ELSE LET memory == sweeps[1].batch[sweeps[1].i]
               IN  /\ nodes' = graphitiStore(nodes, made + 1, now,
                         memory.content,
                         [memory.metadata EXCEPT !.tier = "silent"])
                   /\ made' = made + 1
                   /\ sweeps' = [sweeps EXCEPT ![1] = OnUpgraded(sweeps[1])]
    /\ UNCHANGED <<scorerVars, now, cleanup>>

\* GraphitiMCPAdapter.cleanup: const episodes = await this.list(100)
CleanupListLimit == 100

\* list(limit) without a tier: get_episodes with the limit, unfiltered
graphitiListAll(ns, limit) ==
    {[i \in 1..Min(Len(rows), limit) |-> MemoryResult(rows[i])] :
        rows \in Ordered(ns)}

\* episode.metadata.tier === 'ephemeral' && episode.metadata.expiresAt &&
\* episode.metadata.expiresAt.getTime() < now
ExpiredEpisode(episode, t) ==
    /\ episode.metadata.tier = "ephemeral"
    /\ "expiresAt" \in DOMAIN episode.metadata
    /\ episode.metadata.expiresAt < t

\* the for loop of cleanup() from the episode after the i-th: episodes that
\* are not ephemeral or not expired are passed over (list() reports
\* reinforcementCount 0, so the upgrade branch is never taken), and the
\* loop stands at the next expired one, awaiting its forget(), or is over
CleanupLoop(episodes, i, deleted, t) ==
    LET rest == {j \in (i + 1)..Len(episodes) : ExpiredEpisode(episodes[j], t)}
    IN  [pc |-> IF rest = {} THEN "resolved" ELSE "forget",
         deleted |-> deleted,
         upgraded |-> 0,
         episodes |-> episodes,
         i |-> IF rest = {} THEN Len(episodes)
               ELSE CHOOSE j \in rest : \A k \in rest : j <= k,
         now |-> t]

\* cleanup(): this.list(100) has resolved or rejected; now = Date.now() is
\* read as the loop starts
GraphitiCleanupList ==
    /\ Quiet
    /\ cleanup.pc = "idle"
    /\ \E outcome \in MayReject :
          IF outcome = "rejects"
          THEN cleanup' = [CleanupLoop(<<>>, 0, 0, now) EXCEPT
                              !.pc = "rejected"]
          ELSE \E episodes \in graphitiListAll(nodes, CleanupListLimit) :
                  cleanup' = CleanupLoop(episodes, 0, 0, now)
    /\ UNCHANGED <<scorerVars, now, nodes, made, sweeps>>

\* cleanup(): await this.forget(episode.id) has resolved, deleted++, or
\* rejected, and cleanup() rejects with the episodes deleted so far gone
GraphitiCleanupForget ==
    /\ cleanup.pc = "forget"
    /\ \E outcome \in MayReject :
          IF outcome = "rejects"
          THEN /\ cleanup' = [cleanup EXCEPT !.pc = "rejected"]
               /\ UNCHANGED nodes
          ELSE /\ nodes' = graphitiForget(nodes,
                              cleanup.episodes[cleanup.i].id)
               /\ cleanup' = CleanupLoop(cleanup.episodes, cleanup.i,
                                         cleanup.deleted + 1, cleanup.now)
    /\ UNCHANGED <<scorerVars, now, made, sweeps>>

\* cleanup() has returned { deleted, upgraded } or rejected, and the caller
\* goes on
GraphitiCleanupReturn ==
    /\ cleanup.pc \in {"resolved", "rejected"}
    /\ cleanup' = CleanupIdle
    /\ UNCHANGED <<scorerVars, now, nodes, made, sweeps>>

\* the heartbeat awaits cleanupExpiredMemories() before it calls
\* processReinforcements(); time passes and records are stored while
\* cleanup() awaits
NextGraphitiSweep ==
    \/ Quiet /\ Tick
    \/ Quiet /\ GraphitiStore
    \/ GraphitiCleanupList
    \/ GraphitiCleanupForget
    \/ GraphitiCleanupReturn
    \/ cleanup.pc = "idle" /\ GraphitiSweepList
    \/ GraphitiSweepGetRelated
    \/ GraphitiSweepForget
    \/ GraphitiSweepStore
    \/ SweepReturn(1)

SpecGraphitiSweep == InitGraphitiSweep /\ [][NextGraphitiSweep]_vars

\* the store holds the memory of a listed record, as an ephemeral or as a
\* silent record
Kept(ns, memory) ==
    \E m \in ns : /\ m.content = memory.content
                  /\ m.tier \in {"ephemeral", "silent"}

\* C26: no record is lost by a reinforcement sweep: whichever call fails
\* and at whatever point, also in the middle of an adapter's update, every
\* record of the listed batch exists in the store afterwards, unchanged as
\* ephemeral or promoted to silent.
C26_NoRecordLost ==
    sweeps[1].pc = "done"
    => \A k \in 1..Len(sweeps[1].batch) : Kept(nodes, sweeps[1].batch[k])

---------------------------------------------------------------------------
(* Claims about the calls scoreConversation makes.                         *)

\* C27: one scoreConversation invocation issues at most one recall call to
\* the storage collaborator (call.recall is that call), and none when
\* scoring is disabled, when the conversation is gated as trivial, when the
\* concatenated content is shorter than 20 characters or when the external
\* model returns successfully; repetition, context_anchoring and novelty
\* are all computed from that one result set.
C27_OneSharedRecall ==
    call.op = "scoreConversation"
    => LET text == TextOf[call.segments]
       IN  /\ (\/ ~ConfigRead.enabled
               \/ call.path = "trivial"
               \/ text.fullLength < 20
               \/ call.path = "model") => ~call.recall.called
           /\ call.recall.called => call.path = "heuristic"
           /\ (call.recall.called /\ ~call.recall.rejects)
              => result = HeuristicScored(config, call.segments, text,
                                          call.recall.results)

\* a conversation of fewer than 20 characters that holds a marker went down
\* the heuristic path and was scored without a recall call
C27_Witness ==
    /\ call.op = "scoreConversation"
    /\ call.path = "heuristic"
    /\ TextOf[call.segments].fullLength < 20
    /\ ~call.recall.called
    /\ result.score \in Scores

---------------------------------------------------------------------------
(* SpecTimeout: scoreConversation on a scorer with a scoring model, step   *)
(* by step through scoreWithLocalModel: the timer is set, fetch is         *)
(* awaited, the timer fires or the endpoint answers, the finally block     *)
(* clears the timer, and a failure falls through to the heuristic path     *)
(* and its recall.  `call` holds the position, the timer, the endpoint's   *)
(* behaviour and what the calls resolved to.                               *)

\* modelCfg.timeoutMs ?? 10_000
DEFAULT_TIMEOUT_MS == 10000
TimeoutMs(timeoutMs) ==
    IF timeoutMs = None THEN DEFAULT_TIMEOUT_MS
    ELSE CHOOSE ms \in timeoutMs : TRUE

\* modelCfg.timeoutMs, where the configuration gives it
ConfiguredTimeouts == {None, Some(0), Some(1)}

\* what the endpoint does with a request: it answers at some time, or never
Endpoints == {"answers", "silent"}

TimedIdle(timeoutMs) ==
    [op |-> "idle", pc |-> "idle", timeoutMs |-> timeoutMs,
     segments |-> <<>>, endpoint |-> "answers", timer |-> "unset",
     abortedAfter |-> None, response |-> NoResponse, recall |-> NoRecall,
     path |-> "none"]

InitTimeout ==
    /\ config = [DEFAULT_SCORING_CONFIG EXCEPT !.scoringModel = "llamacpp"]
    /\ result = NoResult
    /\ \E timeoutMs \in ConfiguredTimeouts : call = TimedIdle(timeoutMs)
    /\ StoreIdle

\* scoreConversation(segments) up to its first await: the fast paths
\* return, otherwise scoreWithLocalModel sets the timer and awaits fetch
TimedScore ==
    /\ call.pc = "idle"
    /\ \E segments \in Conversations, endpoint \in Endpoints :
          LET text == TextOf[segments]
              begun == [call EXCEPT !.op = "scoreConversation",
                                    !.segments = segments,
                                    !.endpoint = endpoint]
          IN  IF ~config.enabled \/ Gated(config, segments, text)
              THEN /\ call' = [begun EXCEPT
                         !.pc = "returned",
                         !.path = ScorePath(config, segments, text, NoResponse)]
                   /\ result' = scoreConversation(config, segments, text,
                                                  NoResponse, NoRecall)
              ELSE /\ call' = [begun EXCEPT !.pc = "fetch", !.timer = "armed"]
                   /\ result' = NoResult
    /\ UNCHANGED <<config, storeVars>>

\* the endpoint answers, or the request fails, before the timer fires
FetchSettles ==
    /\ call.pc = "fetch"
    /\ call.endpoint = "answers"
    /\ \E response \in Responses :
          /\ response.kind # "timeout"
          /\ call' = [call EXCEPT !.pc = "settled", !.response = response]
    /\ UNCHANGED <<config, result, storeVars>>

\* a timer callback that does not abort the request
OnTimer_NoAbort(c) == [c EXCEPT !.timer = "fired"]

\* setTimeout(() => controller.abort(), timeoutMs): the timer fires, the
\* request is aborted and fetch rejects
OnTimer(c) ==
    [c EXCEPT !.timer = "fired",
              !.abortedAfter = Some(TimeoutMs(c.timeoutMs)),
              !.pc = "settled",
              !.response = [NoResponse EXCEPT !.kind = "timeout"]]

TimerFires ==
    /\ call.pc = "fetch"
    /\ call.timer = "armed"
    /\ call' = OnTimer(call)
    /\ UNCHANGED <<config, result, storeVars>>

\* finally { clearTimeout(timer) }, then the return of scoreWithLocalModel
\* or the catch in scoreConversation that falls through to the heuristics
TimedFinally ==
    /\ call.pc = "settled"
    /\ IF LocalModelThrows(call.response)
       THEN /\ call' = [call EXCEPT !.timer = "cleared", !.pc = "heuristic"]
            /\ UNCHANGED result
       ELSE /\ call' = [call EXCEPT !.timer = "cleared", !.pc = "returned",
                                    !.path = "model"]
            /\ result' = scoreWithLocalModel(config,
                            TextOf[call.segments].hasExplicit, call.response)
    /\ UNCHANGED <<config, storeVars>>

\* the heuristic path up to the recall call, which is awaited when the
\* content has 20 characters
TimedHeuristic ==
    /\ call.pc = "heuristic"
    /\ IF RecallNeeded(TextOf[call.segments])
       THEN /\ call' = [call EXCEPT !.pc = "recall", !.path = "heuristic"]
            /\ UNCHANGED result
       ELSE /\ call' = [call EXCEPT !.pc = "returned", !.path = "heuristic"]
            /\ result' = HeuristicResult(config, call.segments,
                                         TextOf[call.segments], NoRecall)
    /\ UNCHANGED <<config, storeVars>>

\* adapter.recall returns or rejects, and the heuristic result is returned
RecallSettles ==
    /\ call.pc = "recall"
    /\ \E recall \in RecallOutcomes :
          /\ call' = [call EXCEPT !.pc = "returned", !.recall = recall]
          /\ result' = HeuristicResult(config, call.segments,
                                       TextOf[call.segments], recall)
    /\ UNCHANGED <<config, storeVars>>

\* the caller has the ScoringResult
TimedReturn ==
    /\ call.pc = "returned"
    /\ call' = TimedIdle(call.timeoutMs)
    /\ result' = NoResult
    /\ UNCHANGED <<config, storeVars>>

NextTimeout ==
    \/ TimedScore
    \/ FetchSettles
    \/ TimerFires
    \/ TimedFinally
    \/ TimedHeuristic
    \/ RecallSettles
    \/ TimedReturn

\* the event loop runs the timer and the continuations, and recall returns
\* or rejects
SpecTimeout ==
    /\ InitTimeout
    /\ [][NextTimeout]_vars
    /\ WF_vars(TimerFires)
    /\ WF_vars(TimedFinally)
    /\ WF_vars(TimedHeuristic)
    /\ WF_vars(RecallSettles)

\* the request is in flight to an endpoint that never responds
NeverAnswered == call.pc = "fetch" /\ call.endpoint = "silent"

\* the call has returned the heuristic result, the request having been
\* aborted when the configured timeout fired, and the timer is cleared
ReturnedHeuristicAfterAbort ==
    /\ call.pc = "returned"
    /\ call.path = "heuristic"
    /\ call.abortedAfter = Some(TimeoutMs(call.timeoutMs))
    /\ call.timer = "cleared"
    /\ result = HeuristicResult(config, call.segments, TextOf[call.segments],
                                call.recall)

\* C28: if the external model endpoint never responds, the request is
\* cancelled when the configured timeout (default 10 s) fires, the timer is
\* cleared on every exit path, and scoreConversation eventually returns the
\* heuristic result, provided the recall itself returns or rejects.
C28_TimeoutFallsBack ==
    /\ [](call.pc = "returned" => call.timer \in {"unset", "cleared"})
    /\ NeverAnswered ~> ReturnedHeuristicAfterAbort

\* the default timeout aborted a request to a silent endpoint and the call
\* returned the heuristic result after a recall that rejected
C28_Witness ==
    /\ ReturnedHeuristicAfterAbort
    /\ call.endpoint = "silent"
    /\ call.timeoutMs = None
    /\ call.recall.rejects

---------------------------------------------------------------------------
(* The count a sweep returns, with other writers at work (SpecStore).      *)

RECURSIVE PromotedUpTo(_, _)
\* the nodes the first k updates of a sweep took from ephemeral to silent
PromotedUpTo(s, k) ==
    IF k = 0 THEN 0 ELSE s.log[k].promoted + PromotedUpTo(s, k - 1)

\* C29: the `upgraded` count returned by processReinforcements equals the
\* number of records whose stored tier that invocation changed from
\* ephemeral to silent, also when a forget, a cleanup or another sweep acts
\* on a record between this sweep's list call and its update call for it.
C29_UpgradedCountsPromotions ==
    \A p \in Sweepers :
        sweeps[p].pc = "done" =>
            sweeps[p].upgraded = PromotedUpTo(sweeps[p], Len(sweeps[p].log))

---------------------------------------------------------------------------
(* SpecFactors: scoreConversation without a scoring model, over            *)
(* conversations that take the text factors to their ends and over         *)
(* recalled results of every similarity.                                   *)

\* the recalled results: relevanceScore 0, 0.4, 0.5, 0.9 and 1, of explicit
\* and ephemeral records, and how many of them at most
MaxRecalled == 3
FactorPool ==
    [relevance : {0, 4, 5, 9, 10}, tier : {"explicit", "ephemeral"}]

FactorRecalls ==
    {RecallRejects}
    \cup {RecallReturns(r) : r \in SeqsUpTo(FactorPool, MaxRecalled)}

\* the configurations: the default one, one whose explicit tier starts at
\* 10, and one that lets short conversations through the gate
FactorPartials ==
    {EmptyPartial, [explicitThreshold |-> 10], [minConversationLength |-> 0]}

InitFactors ==
    /\ \E p \in FactorPartials : config = Constructed(p)
    /\ result = NoResult
    /\ call = Idle(config)
    /\ StoreIdle

NextFactors ==
    \/ ScoreConversationOver(FactorConversations)
    \/ UpdateConfigMeanwhileWith(FactorPartials)
    \/ HeuristicsResume
    \/ RecallAnswersWith(FactorRecalls)
    \/ Return

SpecFactors == InitFactors /\ [][NextFactors]_vars

\* C30: on the heuristic path, with recalled relevance scores in [0,1], the
\* score is between 1 and 9 inclusive: future_utility is between 3 and 9,
\* repetition and novelty are rounded from the same average similarity
\* (they add up to 10 or 11 when results were recalled) and are never both
\* above 5 or both below 5; so the heuristics never produce score 0 or
\* score 10, nor tier explicit when explicitThreshold = 10.
C30_HeuristicScoreRange ==
    (call.op = "scoreConversation" /\ call.path = "heuristic") =>
        LET f == FactorsOfCall IN
        /\ result.score \in 1..9
        /\ f.future_utility \in 3..9
        /\ Len(RecallResults(TextOf[call.segments], call.recall)) > 0
              => f.repetition + f.novelty \in {10, 11}
        /\ ~(f.repetition > 5 /\ f.novelty > 5)
        /\ ~(f.repetition < 5 /\ f.novelty < 5)
        /\ config.explicitThreshold = 10 => result.tier # "explicit"

\* every factor at its largest: the heuristic score is 9, and with
\* explicitThreshold = 10 the tier is not explicit
C30_Witness ==
    /\ call.op = "scoreConversation"
    /\ call.path = "heuristic"
    /\ call.segments = LoudConversation
    /\ FactorsOfCall.future_utility = 9
    /\ FactorsOfCall.repetition = 10
    /\ FactorsOfCall.context_anchoring = 9
    /\ result.score = 9
    /\ config.explicitThreshold = 10
    /\ result.tier = "silent"

====
